---- MODULE Spec2Model ----
(***************************************************************************)
(* Payment lifecycle engine of the marketplace payment service:            *)
(* PaymentService.createTaskPayment / handleTaskAction, the failure        *)
(* recovery of PayoutRetryService and AdminController, and the queued      *)
(* payout hook of UserController.updatePayoutDetails.                      *)
(*                                                                         *)
(* Tables are sequences of rows (a row's id is its index).  A request that *)
(* runs in a database transaction takes two steps: its reads (a consistent *)
(* snapshot; sequelize.transaction() is opened without an isolation level  *)
(* on the mysql dialect, so reads take no lock) and then its writes, the   *)
(* gateway call and the commit.  Row increments and decrements are applied *)
(* to the committed row, as the store applies them.                        *)
(***************************************************************************)
EXTENDS Integers, Sequences, FiniteSets, TLC

\* ---------------------------------------------------------------- bounds
MaxTransfers == 2        \* successful gateway transfers in a run
MaxGatewayFailures == 2  \* failing gateway calls in a run

\* ------------------------------------------------------------ input sets
Tasks == {"task1", "task2"}
OneTask == {"task1"}
Users == {"tasker1"}
Procs == {"req1", "req2"}
Serial == "req1"
Accounts == {"acct_1"}
AdminAccounts == {"acct_2"}
PageLimit == 50
Quotes(task) ==
  IF task = "task1"
  THEN { [task_price |-> 100, commission |-> 15, service_fee |-> 10] }
  ELSE { [task_price |-> 20, commission |-> 15, service_fee |-> 5] }
ErrorCodes == {"balance_insufficient"}
NoCode == "none"
GatewayErrors == ErrorCodes \cup {NoCode}
RefundActions == {"CANCEL", "CANCEL_FULL", "REFUND"}
LifecycleActions == {"COMPLETE"} \cup RefundActions
RefundedStatuses ==
  {"REFUNDED", "REFUNDED_FULL", "REFUNDED_KEEP_FEE", "REFUNDED_WITH_PENALTY"}
NoAccount == "null"
Idle == [op |-> "idle"]
NoResponse == [op |-> "none", task |-> "none", code |-> 0, status |-> "none"]

VARIABLES
  payments,        \* table payments
  wallets,         \* table wallets, keyed by external_user_id (unique)
  company,         \* the PlatformAccount singleton
  ledger,          \* table transactions (ledger entries)
  payouts,         \* table payouts (audit records)
  pendingPayouts,  \* table pending_payouts (queued payouts)
  failedPayouts,   \* table failed_payout_requests (retryable records)
  adminReviews,    \* table failed_requests_admin_review
  failedRefunds,   \* table failed_refund_requests
  knownCodes,      \* table stripe_error_codes (allow-list)
  req,             \* per request slot: the open transaction and its snapshot
  resp,            \* the response sent by the last step (NoResponse if none)
  gwLog,           \* gateway calls made by the last step
  transfersOK,     \* history: successful gateway transfers per task
  transferred,     \* history: amount successfully transferred per payee
  credited,        \* history: net amount moved into available per payee
  refundsOK,       \* history: successful gateway refunds per task
  heldSpent,       \* history: committed actions that consumed a PENDING hold
  gwOkCount,       \* history: successful gateway transfers so far
  gwFailures       \* history: failing gateway calls so far

dbVars ==
  << payments, wallets, company, ledger, payouts, pendingPayouts,
     failedPayouts, adminReviews, failedRefunds, knownCodes >>
histVars == << transfersOK, transferred, credited, refundsOK, heldSpent >>
vars == << dbVars, req, resp, gwLog, histVars, gwOkCount, gwFailures >>

\* The gateway may still succeed with a transfer / may still fail
MayTransfer == gwOkCount < MaxTransfers
MayFail == gwFailures < MaxGatewayFailures

\* The step makes no gateway call.
NoGateway ==
  /\ gwLog' = << >>
  /\ UNCHANGED << gwOkCount, gwFailures >>

\* ---------------------------------------------------------------- helpers
FirstIndex(S) == IF S = {} THEN 0 ELSE CHOOSE i \in S : \A j \in S : i <= j

Response(op, task, code, status) ==
  [op |-> op, task |-> task, code |-> code, status |-> status]

\* The idle slot's response after a batch: the counts of retryPayouts
BatchResponse(processed, success, failed) ==
  [op |-> "retryPayouts", task |-> "none", code |-> 200, status |-> "done",
   processed |-> processed, success |-> success, failed |-> failed]

\* Ascending sequence of the elements of a set of row ids
RECURSIVE SeqOfSet(_)
SeqOfSet(S) ==
  IF S = {} THEN << >>
  ELSE LET m == CHOOSE i \in S : \A j \in S : i <= j
       IN << m >> \o SeqOfSet(S \ {m})

Take(s, n) == IF Len(s) <= n THEN s ELSE SubSeq(s, 1, n)

\* Payment.findOne({ where: { related_task_id, status in sts } })
FindPayment(task, sts) ==
  FirstIndex({i \in 1..Len(payments) :
                payments[i].related_task_id = task /\ payments[i].status \in sts})

AllStatuses == {"PENDING", "COMPLETED", "FAILED"} \cup RefundedStatuses

\* Transaction.findOne({ where: { reference_id, type: 'EARNING_PENDING' } })
FindLedgerEntry(ref, type) ==
  FirstIndex({i \in 1..Len(ledger) :
                ledger[i].reference_id = ref /\ ledger[i].type = type})

NewWallet ==
  [exists |-> TRUE, available_balance |-> 0, pending_balance |-> 0,
   escrow_balance |-> 0, stripe_account_id |-> NoAccount,
   stripe_account_status |-> "PENDING"]

AbsentWallet == [NewWallet EXCEPT !.exists = FALSE]

\* walletService.getOrCreate
getOrCreate(ws, user) ==
  IF ws[user].exists THEN ws ELSE [ws EXCEPT ![user] = NewWallet]

\* createTaskPayment, step 1: the three amounts (TaskerPendingGross is the
\* hold without the commission taken off, kept for comparison)
TaskerPendingGross(task_price, commission) == task_price
TaskerPendingOnCreate(task_price, commission) == task_price - commission
CompanyPendingOnCreate(commission, service_fee) == commission + service_fee
TotalAmount(task_price, service_fee) == task_price + service_fee

\* handleTaskAction: the held amounts recomputed from the Payment row
taskerPendingAmount(p) == p.amount - p.service_fee - p.commission
companyPendingAmount(p) == p.commission + p.service_fee

\* ledgerService.record
LedgerRecord(toWallet, platform, amount, type, status, ref) ==
  [to_wallet_id |-> toWallet, platform_account |-> platform, amount |-> amount,
   type |-> type, status |-> status, reference_id |-> ref]

\* Transaction.update({ status }, { where: { reference_id } })
LedgerSetStatus(lg, ref, st) ==
  [i \in 1..Len(lg) |->
     IF lg[i].reference_id = ref THEN [lg[i] EXCEPT !.status = st] ELSE lg[i]]

\* ------------------------------------------------------------------- Init
Init ==
  /\ payments = << >>
  /\ wallets = [u \in Users |-> AbsentWallet]
  /\ company = [exists |-> FALSE, balance |-> 0, pending_balance |-> 0,
                total_revenue |-> 0]
  /\ ledger = << >>
  /\ payouts = << >>
  /\ pendingPayouts = << >>
  /\ failedPayouts = << >>
  /\ adminReviews = << >>
  /\ failedRefunds = << >>
  /\ knownCodes = {}
  /\ req = [p \in Procs |-> Idle]
  /\ resp = NoResponse
  /\ gwLog = << >>
  /\ transfersOK = [t \in Tasks |-> 0]
  /\ transferred = [u \in Users |-> 0]
  /\ credited = [u \in Users |-> 0]
  /\ refundsOK = [t \in Tasks |-> 0]
  /\ heldSpent = [t \in Tasks |-> 0]
  /\ gwOkCount = 0
  /\ gwFailures = 0

\* ----------------------------------------------------- createTaskPayment
\* const existingPayment = await Payment.findOne({ where: { related_task_id } })
\* (existingPendingPayment looks at PENDING payments only, kept for comparison)
existingPendingPayment(task) == FindPayment(task, {"PENDING"})
existingPayment(task) == FindPayment(task, AllStatuses)

\* The existence check before the transaction finds a Payment: 409.
CreateConflict(task) ==
  /\ existingPayment(task) # 0
  /\ resp' = Response("create", task, 409, "error")
  /\ NoGateway
  /\ UNCHANGED << dbVars, req, histVars >>

\* The existence check passes and the transaction is opened.
CreateBegin(p, task, user, q, intent) ==
  /\ req[p] = Idle
  /\ existingPayment(task) = 0
  /\ req' = [req EXCEPT ![p] =
       [op |-> "create", task |-> task, user |-> user, quote |-> q,
        payment_intent |-> intent]]
  /\ NoGateway
  /\ resp' = NoResponse
  /\ UNCHANGED << dbVars, histVars >>

\* The unique index on payments.related_task_id refuses the insert
\* (neverViolatesUniqueTask is the table without the index, kept for comparison)
neverViolatesUniqueTask(task) == FALSE
violatesUniqueTask(task) == FindPayment(task, AllStatuses) # 0

\* Payment.create hits the unique index on related_task_id: rollback.
CreateDuplicate(p) ==
  /\ req[p].op = "create"
  /\ violatesUniqueTask(req[p].task)
  /\ req' = [req EXCEPT ![p] = Idle]
  /\ resp' = Response("create", req[p].task, 400, "error")
  /\ NoGateway
  /\ UNCHANGED << dbVars, histVars >>

\* The writes of create in program order, and those issued with the
\* transaction (createWritesButWallet leaves the wallet increment outside
\* it, kept for comparison)
CreateSteps == << "payment", "wallet", "company", "ledgerEarning", "ledgerFee" >>
createWritesButWallet == {"payment", "company", "ledgerEarning", "ledgerFee"}
createWritesInTransaction ==
  {"payment", "wallet", "company", "ledgerEarning", "ledgerFee"}

\* Write k of create throws: what was written with the transaction is rolled
\* back, the error is rethrown.
CreateFailed(p, k) ==
  /\ req[p].op = "create"
  /\ k \in 1..Len(CreateSteps)
  /\ k = 1 \/ ~violatesUniqueTask(req[p].task)
  /\ LET r == req[p]
         q == r.quote
         tp == TaskerPendingOnCreate(q.task_price, q.commission)
         cp == CompanyPendingOnCreate(q.commission, q.service_fee)
         id == Len(payments) + 1
         kept == {CreateSteps[j] : j \in 1..(k - 1)} \ createWritesInTransaction
     IN /\ payments' =
             IF "payment" \in kept
             THEN Append(payments,
                    [related_task_id |-> r.task,
                     amount |-> TotalAmount(q.task_price, q.service_fee),
                     service_fee |-> q.service_fee, commission |-> q.commission,
                     status |-> "PENDING",
                     stripe_payment_intent_id |-> r.payment_intent])
             ELSE payments
        /\ wallets' =
             IF "wallet" \in kept
             THEN [getOrCreate(wallets, r.user) EXCEPT
                     ![r.user].pending_balance = @ + tp]
             ELSE wallets
        /\ company' =
             IF "company" \in kept
             THEN [company EXCEPT !.exists = TRUE, !.pending_balance = @ + cp]
             ELSE company
        /\ ledger' =
             IF "ledgerEarning" \in kept
             THEN Append(ledger,
                    LedgerRecord(r.user, FALSE, tp, "EARNING_PENDING", "PENDING", id))
             ELSE ledger
        /\ resp' = Response("create", r.task, 500, CreateSteps[k])
  /\ req' = [req EXCEPT ![p] = Idle]
  /\ NoGateway
  /\ UNCHANGED << payouts, pendingPayouts, failedPayouts, adminReviews,
                  failedRefunds, knownCodes, histVars >>

\* Steps 1-5 and the commit.
CreateCommit(p) ==
  /\ req[p].op = "create"
  /\ ~violatesUniqueTask(req[p].task)
  /\ LET r == req[p]
         q == r.quote
         tp == TaskerPendingOnCreate(q.task_price, q.commission)
         cp == CompanyPendingOnCreate(q.commission, q.service_fee)
         id == Len(payments) + 1
         ws == getOrCreate(wallets, r.user)
     IN /\ payments' = Append(payments,
             [related_task_id |-> r.task, amount |-> TotalAmount(q.task_price, q.service_fee),
              service_fee |-> q.service_fee, commission |-> q.commission,
              status |-> "PENDING", stripe_payment_intent_id |-> r.payment_intent])
        /\ wallets' = [ws EXCEPT ![r.user].pending_balance = @ + tp]
        /\ company' = [company EXCEPT !.exists = TRUE, !.pending_balance = @ + cp]
        /\ ledger' = ledger \o
             << LedgerRecord(r.user, FALSE, tp, "EARNING_PENDING", "PENDING", id),
                LedgerRecord("none", TRUE, cp, "FEE_PENDING", "PENDING", id) >>
        /\ resp' = Response("create", r.task, 200, "PENDING")
  /\ req' = [req EXCEPT ![p] = Idle]
  /\ NoGateway
  /\ UNCHANGED << payouts, pendingPayouts, failedPayouts, adminReviews,
                  failedRefunds, knownCodes, histVars >>

\* ------------------------------------------------------- failure records
\* const errorCode = error?.code || error?.raw?.code || 'UNKNOWN_ERROR'
errorCodeOf(err) == IF err = NoCode THEN "UNKNOWN_ERROR" ELSE err

\* StripeErrorCode.findOne({ where: { error_code } })
isKnownError(code) == code \in knownCodes

FindByTask(tbl, task) ==
  FirstIndex({i \in 1..Len(tbl) : tbl[i].task_id = task})

\* checkAndQueue, known code: upsert of the FailedPayout row of the task
QueueFailedPayout(tbl, task, user, acct, amount, code) ==
  LET existing == FindByTask(tbl, task)
  IN IF existing # 0
     THEN [tbl EXCEPT ![existing] =
             [@ EXCEPT !.status = "PENDING", !.error_code = code, !.retry_count = 0]]
     ELSE Append(tbl,
             [task_id |-> task, user_id |-> user, stripe_connect_account_id |-> acct,
              amount |-> amount, error_code |-> code, status |-> "PENDING",
              retry_count |-> 0])

\* checkAndQueue, unknown code: upsert of the admin-review row of the task
QueueAdminReview(tbl, task, user, acct, amount, code) ==
  LET existing == FindByTask(tbl, task)
  IN IF existing # 0
     THEN [tbl EXCEPT ![existing] =
             [@ EXCEPT !.status = "ADMIN_REVIEW_REQUIRED", !.error_code = code]]
     ELSE Append(tbl,
             [task_id |-> task, user_id |-> user, stripe_connect_account_id |-> acct,
              amount |-> amount, error_code |-> code,
              status |-> "ADMIN_REVIEW_REQUIRED", edited |-> FALSE])

\* recordFailedRefund: always a new FailedRefundRequest row
recordFailedRefund(tbl, payId, task, amount, action, err, intent) ==
  Append(tbl,
    [payment_id |-> payId, task_id |-> task, amount |-> amount, action |-> action,
     stripe_payment_intent_id |-> intent,
     error_code |-> IF err = NoCode THEN "UNKNOWN" ELSE err,
     status |-> "PENDING", retry_count |-> 0])

GwCall(kind, task, amount, dest, ok) ==
  [kind |-> kind, task |-> task, amount |-> amount, dest |-> dest, ok |-> ok]

\* Amounts are DECIMAL(19,4) values, written as integers in ten-thousandths of
\* the currency unit: a cent is UnitsPerCent of them.
UnitsPerCent == 100

\* const amountInCents = Math.round(amount * 100): the nearest whole number of
\* cents; at exactly half a cent the binary product lies on either side of
\* .5 (1.005 * 100 is 100.49999999999999, 0.015 * 100 is 1.5), so both
\* neighbours are possible results.
amountInCents(amount) ==
  LET lo == amount \div UnitsPerCent
      r == amount % UnitsPerCent
  IN IF 2 * r < UnitsPerCent THEN {lo}
     ELSE IF 2 * r > UnitsPerCent THEN {lo + 1}
     ELSE {lo, lo + 1}

\* The step makes the gateway call c: it is logged, with the cents that are
\* sent for its amount, and counted.
Gateway(c) ==
  /\ \E k \in amountInCents(c.amount) :
       gwLog' = << [kind |-> c.kind, task |-> c.task, amount |-> c.amount,
                    dest |-> c.dest, ok |-> c.ok, cents |-> k] >>
  /\ gwOkCount' = gwOkCount + (IF c.kind = "transfer" /\ c.ok THEN 1 ELSE 0)
  /\ gwFailures' = gwFailures + (IF c.ok THEN 0 ELSE 1)

PayoutRow(task, user, amount, via) ==
  [related_task_id |-> task, external_user_id |-> user, amount |-> amount,
   status |-> "COMPLETED", via |-> via]

\* ------------------------------------------------------- handleTaskAction
\* The payment lookup of the action: COMPLETE needs PENDING, the refund
\* actions PENDING or COMPLETED.
LookupPayment(task, action) ==
  IF action = "COMPLETE"
  THEN FindPayment(task, {"PENDING"})
  ELSE FindPayment(task, {"PENDING", "COMPLETED"})

\* No payment matches and none is refunded (or the action is COMPLETE): 404.
ActionNotFound(task, action) ==
  /\ LookupPayment(task, action) = 0
  /\ action = "COMPLETE" \/ FindPayment(task, RefundedStatuses) = 0
  /\ resp' = Response(action, task, 404, "error")
  /\ NoGateway
  /\ UNCHANGED << dbVars, req, histVars >>

\* A refund action finds only a refunded payment: 400.
ActionAlreadyRefunded(task, action) ==
  /\ action \in RefundActions
  /\ LookupPayment(task, action) = 0
  /\ FindPayment(task, RefundedStatuses) # 0
  /\ resp' = Response(action, task, 400, "error")
  /\ NoGateway
  /\ UNCHANGED << dbVars, req, histVars >>

\* REFUND on a payment without a Stripe Payment Intent: 400.
RefundWithoutIntent(task) ==
  /\ LookupPayment(task, "REFUND") # 0
  /\ payments[LookupPayment(task, "REFUND")].stripe_payment_intent_id = FALSE
  /\ resp' = Response("REFUND", task, 400, "error")
  /\ NoGateway
  /\ UNCHANGED << dbVars, req, histVars >>

\* The reads of the transaction: the payment, the tasker wallet traced
\* through the EARNING_PENDING ledger entry, the company account.
ActionBegin(p, task, action) ==
  /\ req[p] = Idle
  /\ LET id == LookupPayment(task, action)
     IN /\ id # 0
        /\ action = "REFUND" => payments[id].stripe_payment_intent_id
        /\ LET le == FindLedgerEntry(id, "EARNING_PENDING")
           IN /\ le # 0
              /\ wallets[ledger[le].to_wallet_id].exists
              /\ company.exists
              /\ req' = [req EXCEPT ![p] =
                   [op |-> "action", action |-> action, task |-> task, pay |-> id,
                    status |-> payments[id].status,
                    user |-> ledger[le].to_wallet_id,
                    stripe_account_id |->
                      wallets[ledger[le].to_wallet_id].stripe_account_id]]
  /\ NoGateway
  /\ resp' = NoResponse
  /\ UNCHANGED << dbVars, histVars >>

\* COMPLETE, step 1: pending -> available, company pending -> balance
\* (CompleteWalletHeld leaves the amount in pending, kept for comparison)
CompleteWalletHeld(w, amt) == w
CompleteWallet(w, amt) ==
  [w EXCEPT !.pending_balance = @ - amt, !.available_balance = @ + amt]

CompleteCompany(co, amt) ==
  [co EXCEPT !.pending_balance = @ - amt, !.balance = @ + amt,
             !.total_revenue = @ + amt]

\* COMPLETE, step 2B: the fresh balance after the increment is the payout
\* (payoutAmountHalved sends half of it, kept for comparison)
payoutAmountHalved(w) == w.available_balance \div 2
payoutAmountOf(w) == w.available_balance

\* if (payoutAmount > 0): only a positive balance is paid out
\* (paysOutAlways transfers whatever the balance, kept for comparison)
paysOutAlways(amount) == TRUE
paysOut(amount) == amount > 0

\* COMPLETE, step 3 (shared by every branch that commits)
CompleteCommitRows(p, w, extraPayouts, extraPending) ==
  LET r == req[p]
      pay == payments[r.pay]
  IN /\ wallets' = [wallets EXCEPT ![r.user] = w]
     /\ company' = CompleteCompany(company, companyPendingAmount(pay))
     /\ ledger' = LedgerSetStatus(ledger, r.pay, "COMPLETED")
     /\ payments' = [payments EXCEPT ![r.pay].status = "COMPLETED"]
     /\ payouts' = payouts \o extraPayouts
     /\ pendingPayouts' = pendingPayouts \o extraPending
     /\ credited' = [credited EXCEPT ![r.user] = @ + taskerPendingAmount(pay)]
     /\ heldSpent' = [heldSpent EXCEPT ![r.task] = @ + 1]
     /\ req' = [req EXCEPT ![p] = Idle]
     /\ UNCHANGED << failedPayouts, adminReviews, failedRefunds, knownCodes,
                     refundsOK >>

\* 2A: no linked account, the payout is queued
CompleteQueued(p) ==
  /\ req[p].op = "action" /\ req[p].action = "COMPLETE"
  /\ req[p].stripe_account_id = NoAccount
  /\ LET r == req[p]
         amt == taskerPendingAmount(payments[r.pay])
     IN CompleteCommitRows(p, CompleteWallet(wallets[r.user], amt), << >>,
          << [task_id |-> r.task, user_id |-> r.user, amount |-> amt,
              status |-> "PENDING"] >>)
  /\ resp' =
       Response("COMPLETE", req[p].task, 200, "PAYOUT_QUEUED")
  /\ NoGateway
  /\ UNCHANGED << transfersOK, transferred >>

\* 2B with payoutAmount <= 0: no transfer, the payment completes
CompleteNoPayout(p) ==
  /\ req[p].op = "action" /\ req[p].action = "COMPLETE"
  /\ req[p].stripe_account_id # NoAccount
  /\ LET r == req[p]
         w == CompleteWallet(wallets[r.user], taskerPendingAmount(payments[r.pay]))
     IN /\ ~paysOut(payoutAmountOf(w))
        /\ CompleteCommitRows(p, w, << >>, << >>)
  /\ resp' = Response("COMPLETE", req[p].task, 200, "COMPLETED")
  /\ NoGateway
  /\ UNCHANGED << transfersOK, transferred >>

\* 2B, the transfer succeeds: deduct the payout, log it, commit
CompletePaid(p) ==
  /\ req[p].op = "action" /\ req[p].action = "COMPLETE"
  /\ req[p].stripe_account_id # NoAccount
  /\ MayTransfer
  /\ LET r == req[p]
         w == CompleteWallet(wallets[r.user], taskerPendingAmount(payments[r.pay]))
         amt == payoutAmountOf(w)
     IN /\ paysOut(amt)
        /\ CompleteCommitRows(p, [w EXCEPT !.available_balance = @ - amt],
             << PayoutRow(r.task, r.user, amt, "complete") >>, << >>)
        /\ Gateway(GwCall("transfer", r.task, amt, r.stripe_account_id, TRUE))
        /\ transfersOK' = [transfersOK EXCEPT ![r.task] = @ + 1]
        /\ transferred' = [transferred EXCEPT ![r.user] = @ + amt]
  /\ resp' = Response("COMPLETE", req[p].task, 200, "COMPLETED")

\* 2B, the transfer throws: checkAndQueue outside the transaction, rollback
CompleteFailed(p, err) ==
  /\ req[p].op = "action" /\ req[p].action = "COMPLETE"
  /\ req[p].stripe_account_id # NoAccount
  /\ MayFail
  /\ LET r == req[p]
         w == CompleteWallet(wallets[r.user], taskerPendingAmount(payments[r.pay]))
         amt == payoutAmountOf(w)
         acct == wallets[r.user].stripe_account_id
         code == errorCodeOf(err)
     IN /\ paysOut(amt)
        /\ IF isKnownError(code)
           THEN /\ failedPayouts' =
                     QueueFailedPayout(failedPayouts, r.task, r.user, acct, amt, code)
                /\ UNCHANGED adminReviews
           ELSE /\ adminReviews' =
                     QueueAdminReview(adminReviews, r.task, r.user, acct, amt, code)
                /\ UNCHANGED failedPayouts
        /\ Gateway(GwCall("transfer", r.task, amt, r.stripe_account_id, FALSE))
  /\ req' = [req EXCEPT ![p] = Idle]
  /\ resp' = Response("COMPLETE", req[p].task, 502, "error")
  /\ UNCHANGED << payments, wallets, company, ledger, payouts, pendingPayouts,
                  failedRefunds, knownCodes, histVars >>

\* ------------------------------------------- CANCEL / CANCEL_FULL / REFUND
\* const refundAmount = payment.amount - payment.service_fee  (CANCEL)
\* Number(payment.amount)                          (CANCEL_FULL, REFUND)
\* (refundAmountLessFee keeps the fee back on every action, for comparison)
refundAmountLessFee(action, pay) == pay.amount - pay.service_fee
refundAmountOf(action, pay) ==
  IF action = "CANCEL" THEN pay.amount - pay.service_fee ELSE pay.amount

\* The refund actions call the gateway only for a payment with an intent.
callsGateway(pay) == pay.stripe_payment_intent_id

\* CANCEL, step 2: reverse by the payment status held in memory
CancelWallet(w, st, pay) ==
  IF st = "PENDING"
  THEN [w EXCEPT !.pending_balance = @ - taskerPendingAmount(pay)]
  ELSE IF st = "COMPLETED"
  THEN [w EXCEPT !.available_balance = @ - taskerPendingAmount(pay)]
  ELSE w

\* (CancelCompanyKeepsAll retains the commission too, kept for comparison)
CancelCompanyKeepsAll(co, st, pay) ==
  IF st = "PENDING"
  THEN [co EXCEPT !.pending_balance = @ - companyPendingAmount(pay),
                  !.balance = @ + companyPendingAmount(pay),
                  !.total_revenue = @ + companyPendingAmount(pay)]
  ELSE co
CancelCompany(co, st, pay) ==
  IF st = "PENDING"
  THEN [co EXCEPT !.pending_balance = @ - companyPendingAmount(pay),
                  !.balance = @ + pay.service_fee,
                  !.total_revenue = @ + pay.service_fee]
  ELSE IF st = "COMPLETED"
  THEN [co EXCEPT !.balance = @ - pay.commission,
                  !.total_revenue = @ - pay.commission]
  ELSE co

\* REFUND, step 2 (and CANCEL_FULL, step 2): reverse all held amounts
\* (RefundWalletFromPending reverses from pending whatever the status, kept
\* for comparison)
RefundWalletFromPending(w, st, pay) ==
  [w EXCEPT !.pending_balance = @ - taskerPendingAmount(pay)]
RefundWallet(w, st, pay) ==
  IF st = "PENDING"
  THEN [w EXCEPT !.pending_balance = @ - taskerPendingAmount(pay)]
  ELSE IF st = "COMPLETED"
  THEN [w EXCEPT !.available_balance = @ - taskerPendingAmount(pay)]
  ELSE w

RefundCompany(co, st, pay) ==
  IF st = "PENDING"
  THEN [co EXCEPT !.pending_balance = @ - companyPendingAmount(pay)]
  ELSE IF st = "COMPLETED"
  THEN [co EXCEPT !.balance = @ - companyPendingAmount(pay),
                  !.total_revenue = @ - companyPendingAmount(pay)]
  ELSE co

\* CANCEL_FULL, steps 2-4: the reversal, then the penalty
\* (CancelFullWalletNoPenalty leaves the penalty out, kept for comparison)
CancelFullWalletNoPenalty(w, st, pay) == RefundWallet(w, st, pay)
CancelFullWallet(w, st, pay) ==
  [RefundWallet(w, st, pay) EXCEPT !.available_balance = @ - pay.commission]

CancelFullCompany(co, st, pay) ==
  [RefundCompany(co, st, pay) EXCEPT !.balance = @ + pay.commission,
                                     !.total_revenue = @ + pay.commission]

ReverseWallet(action, w, st, pay) ==
  CASE action = "CANCEL" -> CancelWallet(w, st, pay)
    [] action = "CANCEL_FULL" -> CancelFullWallet(w, st, pay)
    [] OTHER -> RefundWallet(w, st, pay)

ReverseCompany(action, co, st, pay) ==
  CASE action = "CANCEL" -> CancelCompany(co, st, pay)
    [] action = "CANCEL_FULL" -> CancelFullCompany(co, st, pay)
    [] OTHER -> RefundCompany(co, st, pay)

\* Net amount the reversal takes out of available_balance
AvailableDebit(action, st, pay) ==
  (IF st = "COMPLETED" THEN taskerPendingAmount(pay) ELSE 0)
  + (IF action = "CANCEL_FULL" THEN pay.commission ELSE 0)

ledgerStatusOf(action) == IF action = "REFUND" THEN "REFUNDED" ELSE "CANCELLED"

responseStatusOf(action) ==
  CASE action = "CANCEL" -> "CANCELLED"
    [] action = "CANCEL_FULL" -> "CANCELLED_FULL"
    [] OTHER -> "REFUNDED"

\* Whether a failed gateway refund aborts the action before any local change
\* (continuesOnRefundFailure swallows the error, kept for comparison)
continuesOnRefundFailure(action) == FALSE
abortsOnRefundFailure(action) == TRUE

\* The gateway refund throws: recordFailedRefund, 502, rollback.
RefundFailed(p, err) ==
  /\ req[p].op = "action" /\ req[p].action \in RefundActions
  /\ callsGateway(payments[req[p].pay])
  /\ abortsOnRefundFailure(req[p].action)
  /\ MayFail
  /\ LET r == req[p]
         pay == payments[r.pay]
         amt == refundAmountOf(r.action, pay)
     IN /\ failedRefunds' =
             recordFailedRefund(failedRefunds, r.pay, r.task, amt, r.action, err,
                                pay.stripe_payment_intent_id)
        /\ Gateway(GwCall("refund", r.task, amt, NoAccount, FALSE))
  /\ req' = [req EXCEPT ![p] = Idle]
  /\ resp' = Response(req[p].action, req[p].task, 502, "error")
  /\ UNCHANGED << payments, wallets, company, ledger, payouts, pendingPayouts,
                  failedPayouts, adminReviews, knownCodes, histVars >>

\* The gateway refund succeeded (or there is no intent and no call is made):
\* reverse the balances, update the statuses, commit.
RefundCommit(p, gwOk) ==
  /\ req[p].op = "action" /\ req[p].action \in RefundActions
  /\ gwOk \/ ~abortsOnRefundFailure(req[p].action)
  /\ LET r == req[p]
         pay == payments[r.pay]
         amt == refundAmountOf(r.action, pay)
     IN /\ ~callsGateway(pay) => gwOk
        /\ wallets' = [wallets EXCEPT ![r.user] = ReverseWallet(r.action, @, r.status, pay)]
        /\ company' = ReverseCompany(r.action, company, r.status, pay)
        /\ ledger' = LedgerSetStatus(ledger, r.pay, ledgerStatusOf(r.action))
        /\ payments' = [payments EXCEPT ![r.pay].status = "REFUNDED"]
        /\ IF callsGateway(pay)
           THEN Gateway(GwCall("refund", r.task, amt, NoAccount, gwOk))
           ELSE NoGateway
        /\ refundsOK' = [refundsOK EXCEPT ![r.task] =
                           @ + (IF callsGateway(pay) /\ gwOk THEN 1 ELSE 0)]
        /\ credited' = [credited EXCEPT ![r.user] =
                           @ - AvailableDebit(r.action, r.status, pay)]
        /\ heldSpent' = [heldSpent EXCEPT ![r.task] =
                           @ + (IF r.status = "PENDING" THEN 1 ELSE 0)]
        /\ resp' =
                      Response(r.action, r.task, 200, responseStatusOf(r.action))
  /\ req' = [req EXCEPT ![p] = Idle]
  /\ UNCHANGED << payouts, pendingPayouts, failedPayouts, adminReviews,
                  failedRefunds, knownCodes, transfersOK, transferred >>

\* ------------------------------------- UserController.updatePayoutDetails
\* The wallet is linked and saved, then the user's PENDING queued payouts
\* are fetched; the loop handles them one by one, each statement on its own.
HookBegin(p, user, acct) ==
  /\ req[p] = Idle
  /\ wallets' = [getOrCreate(wallets, user) EXCEPT
                   ![user].stripe_account_id = acct,
                   ![user].stripe_account_status = "ACTIVE"]
  /\ req' = [req EXCEPT ![p] =
       LET fetched == SeqOfSet({i \in 1..Len(pendingPayouts) :
                                  /\ pendingPayouts[i].user_id = user
                                  /\ pendingPayouts[i].status = "PENDING"})
       IN [op |-> "hook", user |-> user, stripe_account_id |-> acct,
           fetched |-> fetched, todo |-> fetched]]
  /\ NoGateway
  /\ UNCHANGED << payments, company, ledger, payouts, pendingPayouts,
                  failedPayouts, adminReviews, failedRefunds, knownCodes, histVars >>
  /\ resp' = NoResponse

\* Security: cannot pay more than the available balance
canPayQueued(w, amount) == w.available_balance >= amount

\* Insufficient balance: the record is left as it is.
HookInsufficient(p) ==
  /\ req[p].op = "hook" /\ req[p].todo # << >>
  /\ LET po == pendingPayouts[Head(req[p].todo)]
     IN ~canPayQueued(wallets[req[p].user], po.amount)
  /\ req' = [req EXCEPT ![p].todo = Tail(@)]
  /\ NoGateway
  /\ resp' = NoResponse
  /\ UNCHANGED << dbVars, histVars >>

\* The transfer succeeds: deduct, record the payout, mark PROCESSED.
HookPaid(p) ==
  /\ req[p].op = "hook" /\ req[p].todo # << >>
  /\ LET id == Head(req[p].todo)
         po == pendingPayouts[id]
         u == req[p].user
     IN /\ canPayQueued(wallets[u], po.amount)
        /\ MayTransfer
        /\ wallets' = [wallets EXCEPT ![u].available_balance = @ - po.amount]
        /\ payouts' = Append(payouts, PayoutRow(po.task_id, u, po.amount, "delayed"))
        /\ pendingPayouts' = [pendingPayouts EXCEPT ![id].status = "PROCESSED"]
        /\ Gateway(GwCall("transfer", po.task_id, po.amount, req[p].stripe_account_id, TRUE))
        /\ transfersOK' = [transfersOK EXCEPT ![po.task_id] = @ + 1]
        /\ transferred' = [transferred EXCEPT ![u] = @ + po.amount]
  /\ req' = [req EXCEPT ![p].todo = Tail(@)]
  /\ UNCHANGED << payments, company, ledger, failedPayouts, adminReviews,
                  failedRefunds, knownCodes, credited, refundsOK, heldSpent >>
  /\ resp' = NoResponse

\* The hook's own upsert of the FailedPayout row: retry_count is kept
HookQueueFailedPayout(tbl, task, user, acct, amount, code) ==
  LET existing == FindByTask(tbl, task)
  IN IF existing # 0
     THEN [tbl EXCEPT ![existing] =
             [@ EXCEPT !.status = "PENDING", !.error_code = code]]
     ELSE Append(tbl,
             [task_id |-> task, user_id |-> user, stripe_connect_account_id |-> acct,
              amount |-> amount, error_code |-> code, status |-> "PENDING",
              retry_count |-> 0])

\* The transfer throws: a failure record by classification, payout FAILED.
HookFailed(p, err) ==
  /\ req[p].op = "hook" /\ req[p].todo # << >>
  /\ MayFail
  /\ LET id == Head(req[p].todo)
         po == pendingPayouts[id]
         u == req[p].user
         acct == req[p].stripe_account_id
         code == errorCodeOf(err)
     IN /\ canPayQueued(wallets[u], po.amount)
        /\ IF isKnownError(code)
           THEN /\ failedPayouts' =
                     HookQueueFailedPayout(failedPayouts, po.task_id, u, acct,
                                           po.amount, code)
                /\ UNCHANGED adminReviews
           ELSE /\ adminReviews' =
                     QueueAdminReview(adminReviews, po.task_id, u, acct,
                                      po.amount, code)
                /\ UNCHANGED failedPayouts
        /\ pendingPayouts' = [pendingPayouts EXCEPT ![id].status = "FAILED"]
        /\ Gateway(GwCall("transfer", po.task_id, po.amount, req[p].stripe_account_id, FALSE))
  /\ req' = [req EXCEPT ![p].todo = Tail(@)]
  /\ UNCHANGED << payments, wallets, company, ledger, payouts, failedRefunds,
                  knownCodes, histVars >>
  /\ resp' = NoResponse

\* The loop is over: the response is sent.
HookEnd(p) ==
  /\ req[p].op = "hook" /\ req[p].todo = << >>
  /\ req' = [req EXCEPT ![p] = Idle]
  /\ resp' = Response("updatePayoutDetails", "none", 200, "done")
  /\ NoGateway
  /\ UNCHANGED << dbVars, histVars >>

\* ------------------------------------------ PayoutRetryService.retryPayouts
\* FailedPayout.findAll({ where: { status: 'PENDING' }, limit: 50 })
pendingPage(tbl) ==
  LET ids == Take(SeqOfSet({i \in 1..Len(tbl) : tbl[i].status = "PENDING"}),
                  PageLimit)
  IN [k \in 1..Len(ids) |-> [id |-> ids[k], retry_count |-> tbl[ids[k]].retry_count]]

RetryBegin(p) ==
  /\ req[p] = Idle
  /\ req' = [req EXCEPT ![p] =
       [op |-> "retry", pending |-> pendingPage(failedPayouts),
        todo |-> pendingPage(failedPayouts),
        processed |-> 0, success |-> 0, failed |-> 0]]
  /\ NoGateway
  /\ resp' = NoResponse
  /\ UNCHANGED << dbVars, histVars >>

\* What a successful retried transfer does to the payee's wallet row
\* (RetryWalletDebited deducts the amount, kept for comparison)
RetryWalletDebited(w, amount) == [w EXCEPT !.available_balance = @ - amount]
RetryWallet(w, amount) == w

\* The records still to handle after a record of the page has failed: the
\* catch block and the wallet check end the iteration, not the loop
\* (stopsAfterFailure abandons the rest of the page, kept for comparison)
stopsAfterFailure(todo) == << >>
afterFailure(todo) == Tail(todo)

\* The retried transfer succeeds: the record becomes SUCCESS.
RetryPaid(p) ==
  /\ req[p].op = "retry" /\ req[p].todo # << >>
  /\ LET it == Head(req[p].todo)
         fp == failedPayouts[it.id]
     IN /\ wallets[fp.user_id].exists
        /\ MayTransfer
        /\ failedPayouts' = [failedPayouts EXCEPT ![it.id].status = "SUCCESS"]
        /\ wallets' = [wallets EXCEPT ![fp.user_id] = RetryWallet(@, fp.amount)]
        /\ Gateway(GwCall("transfer", fp.task_id, fp.amount, fp.stripe_connect_account_id, TRUE))
        /\ transfersOK' = [transfersOK EXCEPT ![fp.task_id] = @ + 1]
        /\ transferred' = [transferred EXCEPT ![fp.user_id] = @ + fp.amount]
  /\ req' = [req EXCEPT ![p].todo = Tail(@), ![p].processed = @ + 1,
                        ![p].success = @ + 1]
  /\ UNCHANGED << payments, company, ledger, payouts, pendingPayouts,
                  adminReviews, failedRefunds, knownCodes, credited, refundsOK, heldSpent >>
  /\ resp' = NoResponse

\* The retried transfer throws: retry_count++ on the fetched row object.
RetryFailedAgain(p, err) ==
  /\ req[p].op = "retry" /\ req[p].todo # << >>
  /\ LET it == Head(req[p].todo)
         fp == failedPayouts[it.id]
     IN /\ wallets[fp.user_id].exists
        /\ MayFail
        /\ failedPayouts' = [failedPayouts EXCEPT
             ![it.id].retry_count = it.retry_count + 1,
             ![it.id].error_code = errorCodeOf(err)]
        /\ Gateway(GwCall("transfer", fp.task_id, fp.amount, fp.stripe_connect_account_id, FALSE))
  /\ req' = [req EXCEPT ![p].todo = afterFailure(@), ![p].processed = @ + 1,
                        ![p].failed = @ + 1]
  /\ UNCHANGED << payments, wallets, company, ledger, payouts, pendingPayouts,
                  adminReviews, failedRefunds, knownCodes, histVars >>
  /\ resp' = NoResponse

\* The record's user has no wallet: the record becomes FAILED, no transfer.
RetryWalletMissing(p) ==
  /\ req[p].op = "retry" /\ req[p].todo # << >>
  /\ LET it == Head(req[p].todo)
         fp == failedPayouts[it.id]
     IN /\ ~wallets[fp.user_id].exists
        /\ failedPayouts' = [failedPayouts EXCEPT ![it.id].status = "FAILED"]
  /\ req' = [req EXCEPT ![p].todo = afterFailure(@), ![p].processed = @ + 1,
                        ![p].failed = @ + 1]
  /\ NoGateway
  /\ UNCHANGED << payments, wallets, company, ledger, payouts, pendingPayouts,
                  adminReviews, failedRefunds, knownCodes, histVars >>
  /\ resp' = NoResponse

RetryEnd(p) ==
  /\ req[p].op = "retry" /\ req[p].todo = << >>
  /\ resp' =
       BatchResponse(req[p].processed, req[p].success, req[p].failed)
  /\ req' = [req EXCEPT ![p] = Idle]
  /\ NoGateway
  /\ UNCHANGED << dbVars, histVars >>

\* ------------------------------------------------------- AdminController
AddStripeErrorCode(code) ==
  /\ code \notin knownCodes
  /\ knownCodes' = knownCodes \cup {code}
  /\ NoGateway
  /\ UNCHANGED << payments, wallets, company, ledger, payouts, pendingPayouts,
                  failedPayouts, adminReviews, failedRefunds, req, histVars >>
  /\ resp' = NoResponse

\* if (request.status !== 'ADMIN_REVIEW_REQUIRED') throw new AppError(..., 400)
\* (reviewAlwaysOpen accepts a record in any status, kept for comparison)
reviewAlwaysOpen(rq) == TRUE
reviewOpen(rq) == rq.status = "ADMIN_REVIEW_REQUIRED"

\* updateReviewPayout: only a record in review status may be edited
UpdateReviewPayout(id, acct) ==
  /\ id \in 1..Len(adminReviews)
  /\ reviewOpen(adminReviews[id])
  /\ adminReviews' = [adminReviews EXCEPT
       ![id].stripe_connect_account_id = acct, ![id].edited = TRUE]
  /\ resp' =
       Response("updateReviewPayout", adminReviews[id].task_id, 200, "done")
  /\ NoGateway
  /\ UNCHANGED << payments, wallets, company, ledger, payouts, pendingPayouts,
                  failedPayouts, failedRefunds, knownCodes, req, histVars >>

\* updateReviewPayout / retryReviewPayout on a record not in review: 400
ReviewRejected(id, op) ==
  /\ id \in 1..Len(adminReviews)
  /\ ~reviewOpen(adminReviews[id])
  /\ resp' = Response(op, adminReviews[id].task_id, 400, "error")
  /\ NoGateway
  /\ UNCHANGED << dbVars, req, histVars >>

\* retryReviewPayout, the transfer succeeds: audit payout, PROCESSED
RetryReviewPaid(id) ==
  /\ id \in 1..Len(adminReviews)
  /\ LET rq == adminReviews[id]
     IN /\ reviewOpen(rq)
        /\ wallets[rq.user_id].exists
        /\ MayTransfer
        /\ payouts' = Append(payouts,
             PayoutRow(rq.task_id, rq.user_id, rq.amount, "admin_retry"))
        /\ adminReviews' = [adminReviews EXCEPT ![id].status = "PROCESSED"]
        /\ Gateway(GwCall("transfer", rq.task_id, rq.amount, rq.stripe_connect_account_id, TRUE))
        /\ transfersOK' = [transfersOK EXCEPT ![rq.task_id] = @ + 1]
        /\ transferred' = [transferred EXCEPT ![rq.user_id] = @ + rq.amount]
        /\ resp' =
             Response("retryReviewPayout", rq.task_id, 200, "PROCESSED")
  /\ UNCHANGED << payments, wallets, company, ledger, pendingPayouts,
                  failedPayouts, failedRefunds, knownCodes, req, credited,
                  refundsOK, heldSpent >>

\* const errorCode = error.raw?.code || error.code || 'UNKNOWN_RETRY_ERROR'
retryErrorCodeOf(err) == IF err = NoCode THEN "UNKNOWN_RETRY_ERROR" ELSE err

\* retryReviewPayout, the transfer throws: the error is stored, 400
RetryReviewFailed(id, err) ==
  /\ id \in 1..Len(adminReviews)
  /\ MayFail
  /\ LET rq == adminReviews[id]
     IN /\ reviewOpen(rq)
        /\ wallets[rq.user_id].exists
        /\ adminReviews' = [adminReviews EXCEPT ![id].error_code = retryErrorCodeOf(err)]
        /\ Gateway(GwCall("transfer", rq.task_id, rq.amount, rq.stripe_connect_account_id, FALSE))
        /\ resp' =
             Response("retryReviewPayout", rq.task_id, 400, "error")
  /\ UNCHANGED << payments, wallets, company, ledger, payouts, pendingPayouts,
                  failedPayouts, failedRefunds, knownCodes, req, histVars >>

\* if (refundRequest.status === 'SUCCESS') throw new AppError(..., 400)
\* (neverProcessed lets a SUCCESS request through, kept for comparison)
neverProcessed(rr) == FALSE
alreadyProcessed(rr) == rr.status = "SUCCESS"

\* retryFailedRefund on a request already SUCCESS: 400
RetryFailedRefundRejected(id) ==
  /\ id \in 1..Len(failedRefunds)
  /\ alreadyProcessed(failedRefunds[id])
  /\ resp' =
       Response("retryFailedRefund", failedRefunds[id].task_id, 400, "error")
  /\ NoGateway
  /\ UNCHANGED << dbVars, req, histVars >>

\* retryFailedRefund, the refund succeeds: SUCCESS, the Payment is set REFUNDED
RetryFailedRefundOk(id) ==
  /\ id \in 1..Len(failedRefunds)
  /\ LET rr == failedRefunds[id]
     IN /\ ~alreadyProcessed(rr)
        /\ rr.stripe_payment_intent_id
        /\ failedRefunds' = [failedRefunds EXCEPT
             ![id].status = "SUCCESS", ![id].retry_count = @ + 1]
        /\ payments' = [payments EXCEPT ![rr.payment_id].status = "REFUNDED"]
        /\ Gateway(GwCall("refund", rr.task_id, rr.amount, NoAccount, TRUE))
        /\ refundsOK' = [refundsOK EXCEPT ![rr.task_id] = @ + 1]
        /\ resp' =
             Response("retryFailedRefund", rr.task_id, 200, "SUCCESS")
  /\ UNCHANGED << wallets, company, ledger, payouts, pendingPayouts,
                  failedPayouts, adminReviews, knownCodes, req, transfersOK,
                  transferred, credited, heldSpent >>

\* retryFailedRefund, the refund throws: FAILED, 400
RetryFailedRefundFailed(id, err) ==
  /\ id \in 1..Len(failedRefunds)
  /\ LET rr == failedRefunds[id]
     IN /\ ~alreadyProcessed(rr)
        /\ MayFail
        /\ failedRefunds' = [failedRefunds EXCEPT
             ![id].status = "FAILED", ![id].retry_count = @ + 1,
             ![id].error_code = retryErrorCodeOf(err)]
        /\ Gateway(GwCall("refund", rr.task_id, rr.amount, NoAccount, FALSE))
        /\ resp' =
             Response("retryFailedRefund", rr.task_id, 400, "error")
  /\ UNCHANGED << payments, wallets, company, ledger, payouts, pendingPayouts,
                  failedPayouts, adminReviews, knownCodes, req, histVars >>

\* ---------------------------------------------------------- specifications
\* One task, one request at a time: every handler runs to its response before
\* the next request is taken (the administrative single-statement handlers and
\* the rejected requests hold no slot).
Next ==
  \/ \E t \in OneTask : CreateConflict(t)
  \/ \E t \in OneTask, u \in Users, i \in BOOLEAN :
       \E q \in Quotes(t) : CreateBegin(Serial, t, u, q, i)
  \/ CreateCommit(Serial)
  \/ \E k \in 1..Len(CreateSteps) : CreateFailed(Serial, k)
  \/ \E t \in OneTask, a \in LifecycleActions : ActionNotFound(t, a)
  \/ \E t \in OneTask, a \in RefundActions : ActionAlreadyRefunded(t, a)
  \/ \E t \in OneTask : RefundWithoutIntent(t)
  \/ \E t \in OneTask, a \in LifecycleActions : ActionBegin(Serial, t, a)
  \/ CompleteQueued(Serial)
  \/ CompletePaid(Serial)
  \/ \E e \in GatewayErrors : CompleteFailed(Serial, e)
  \/ \E e \in GatewayErrors : RefundFailed(Serial, e)
  \/ \E ok \in BOOLEAN : RefundCommit(Serial, ok)
  \/ \E u \in Users, a \in Accounts : HookBegin(Serial, u, a)
  \/ HookInsufficient(Serial)
  \/ HookPaid(Serial)
  \/ \E e \in GatewayErrors : HookFailed(Serial, e)
  \/ HookEnd(Serial)
  \/ RetryBegin(Serial)
  \/ RetryPaid(Serial)
  \/ \E e \in GatewayErrors : RetryFailedAgain(Serial, e)
  \/ RetryEnd(Serial)
  \/ \E c \in ErrorCodes : AddStripeErrorCode(c)
  \/ \E id \in 1..Len(adminReviews) : RetryReviewPaid(id)
  \/ \E id \in 1..Len(adminReviews), e \in GatewayErrors : RetryReviewFailed(id, e)

Spec == Init /\ [][Next]_vars

\* One task, two requests in flight: the lifecycle transactions of two slots
\* interleave between their reads and their commit.
NextConcurrent ==
  \/ \E p \in Procs, t \in OneTask, u \in Users, i \in BOOLEAN :
       \E q \in Quotes(t) : CreateBegin(p, t, u, q, i)
  \/ \E p \in Procs : CreateDuplicate(p)
  \/ \E p \in Procs : CreateCommit(p)
  \/ \E p \in Procs, t \in OneTask, a \in LifecycleActions : ActionBegin(p, t, a)
  \/ \E p \in Procs : CompleteQueued(p)
  \/ \E p \in Procs : CompleteNoPayout(p)
  \/ \E p \in Procs : CompletePaid(p)
  \/ \E p \in Procs, e \in GatewayErrors : CompleteFailed(p, e)
  \/ \E p \in Procs, e \in GatewayErrors : RefundFailed(p, e)
  \/ \E p \in Procs, ok \in BOOLEAN : RefundCommit(p, ok)
  \/ \E p \in Procs, u \in Users, a \in Accounts : HookBegin(p, u, a)
  \/ \E p \in Procs : HookInsufficient(p)
  \/ \E p \in Procs : HookPaid(p)
  \/ \E p \in Procs, e \in GatewayErrors : HookFailed(p, e)
  \/ \E p \in Procs : HookEnd(p)

SpecConcurrent == Init /\ [][NextConcurrent]_vars

\* Two tasks of one tasker, one request at a time: the lifecycle of the second
\* task starts from whatever the first one left in the wallet.
NextTwoTasks ==
  \/ \E t \in Tasks, u \in Users, i \in BOOLEAN :
       \E q \in Quotes(t) : CreateBegin(Serial, t, u, q, i)
  \/ CreateCommit(Serial)
  \/ \E t \in Tasks, a \in LifecycleActions : ActionBegin(Serial, t, a)
  \/ CompleteQueued(Serial)
  \/ CompleteNoPayout(Serial)
  \/ CompletePaid(Serial)
  \/ \E ok \in BOOLEAN : RefundCommit(Serial, ok)
  \/ \E u \in Users, a \in Accounts : HookBegin(Serial, u, a)
  \/ HookInsufficient(Serial)
  \/ HookPaid(Serial)
  \/ HookEnd(Serial)

SpecTwoTasks == Init /\ [][NextTwoTasks]_vars

\* One task, one request at a time, with the administrator's retry of the
\* failed-refund records: the refund-class actions, their failures and
\* retryFailedRefund in any order.
NextRefundRetry ==
  \/ \E t \in OneTask, u \in Users, i \in BOOLEAN :
       \E q \in Quotes(t) : CreateBegin(Serial, t, u, q, i)
  \/ CreateCommit(Serial)
  \/ \E t \in OneTask, a \in RefundActions : ActionAlreadyRefunded(t, a)
  \/ \E t \in OneTask, a \in LifecycleActions : ActionBegin(Serial, t, a)
  \/ CompleteQueued(Serial)
  \/ \E e \in GatewayErrors : RefundFailed(Serial, e)
  \/ \E ok \in BOOLEAN : RefundCommit(Serial, ok)
  \/ \E id \in 1..Len(failedRefunds) : RetryFailedRefundRejected(id)
  \/ \E id \in 1..Len(failedRefunds) : RetryFailedRefundOk(id)
  \/ \E id \in 1..Len(failedRefunds), e \in GatewayErrors :
       RetryFailedRefundFailed(id, e)

SpecRefundRetry == Init /\ [][NextRefundRetry]_vars

\* One task, one request at a time: COMPLETE and its failures, the batch retry
\* and the administrator's handling of the admin-review records.
NextReview ==
  \/ \E t \in OneTask, u \in Users, i \in BOOLEAN :
       \E q \in Quotes(t) : CreateBegin(Serial, t, u, q, i)
  \/ CreateCommit(Serial)
  \/ \E u \in Users, a \in Accounts : HookBegin(Serial, u, a)
  \/ HookEnd(Serial)
  \/ \E t \in OneTask : ActionBegin(Serial, t, "COMPLETE")
  \/ CompletePaid(Serial)
  \/ \E e \in GatewayErrors : CompleteFailed(Serial, e)
  \/ \E c \in ErrorCodes : AddStripeErrorCode(c)
  \/ RetryBegin(Serial)
  \/ RetryPaid(Serial)
  \/ \E e \in GatewayErrors : RetryFailedAgain(Serial, e)
  \/ RetryEnd(Serial)
  \/ \E id \in 1..Len(adminReviews), a \in AdminAccounts : UpdateReviewPayout(id, a)
  \/ \E id \in 1..Len(adminReviews), op \in {"updateReviewPayout", "retryReviewPayout"} :
       ReviewRejected(id, op)
  \/ \E id \in 1..Len(adminReviews) : RetryReviewPaid(id)
  \/ \E id \in 1..Len(adminReviews), e \in GatewayErrors : RetryReviewFailed(id, e)

SpecReview == Init /\ [][NextReview]_vars

\* retryPayouts on its own, one pass at a time, over the tables it can be
\* given: both tasks of the tasker are held (PENDING payments) and their
\* COMPLETE failed with an allow-listed code, leaving one retryable record
\* each (or only the first task's), each record still PENDING or already
\* SUCCESS, never or once retried. failed_payout_requests has no foreign key
\* to wallets, so the records may also name a user without a wallet row. The
\* wallet's linked account is the one of the records or one linked later.
HeldPayment(t, q) ==
  [related_task_id |-> t, amount |-> TotalAmount(q.task_price, q.service_fee),
   service_fee |-> q.service_fee, commission |-> q.commission,
   status |-> "PENDING", stripe_payment_intent_id |-> TRUE]

FailedPayoutRows(t) ==
  { [task_id |-> t, user_id |-> u, stripe_connect_account_id |-> a,
     amount |-> TaskerPendingOnCreate(q.task_price, q.commission),
     error_code |-> c, status |-> st, retry_count |-> n] :
      u \in Users, a \in Accounts, q \in Quotes(t), c \in ErrorCodes,
      st \in {"PENDING", "SUCCESS"}, n \in 0..1 }

InitBatch ==
  /\ failedPayouts \in
       { << a >> : a \in FailedPayoutRows("task1") } \cup
       { << a, b >> : a \in FailedPayoutRows("task1"), b \in FailedPayoutRows("task2") }
  /\ \E hasWallet \in BOOLEAN, q1 \in Quotes("task1"), q2 \in Quotes("task2"),
        u \in Users, a \in Accounts \cup AdminAccounts :
       LET tp1 == TaskerPendingOnCreate(q1.task_price, q1.commission)
           tp2 == TaskerPendingOnCreate(q2.task_price, q2.commission)
           cp1 == CompanyPendingOnCreate(q1.commission, q1.service_fee)
           cp2 == CompanyPendingOnCreate(q2.commission, q2.service_fee)
       IN IF hasWallet
          THEN /\ payments = << HeldPayment("task1", q1), HeldPayment("task2", q2) >>
               /\ wallets = [w \in Users |->
                    [NewWallet EXCEPT !.pending_balance = tp1 + tp2,
                                      !.stripe_account_id = a,
                                      !.stripe_account_status = "ACTIVE"]]
               /\ company = [exists |-> TRUE, balance |-> 0,
                             pending_balance |-> cp1 + cp2, total_revenue |-> 0]
               /\ ledger =
                    << LedgerRecord(u, FALSE, tp1, "EARNING_PENDING", "PENDING", 1),
                       LedgerRecord("none", TRUE, cp1, "FEE_PENDING", "PENDING", 1),
                       LedgerRecord(u, FALSE, tp2, "EARNING_PENDING", "PENDING", 2),
                       LedgerRecord("none", TRUE, cp2, "FEE_PENDING", "PENDING", 2) >>
          ELSE /\ payments = << >>
               /\ wallets = [w \in Users |-> AbsentWallet]
               /\ company = [exists |-> FALSE, balance |-> 0, pending_balance |-> 0,
                             total_revenue |-> 0]
               /\ ledger = << >>
  /\ payouts = << >>
  /\ pendingPayouts = << >>
  /\ adminReviews = << >>
  /\ failedRefunds = << >>
  /\ knownCodes = ErrorCodes
  /\ req = [p \in Procs |-> Idle]
  /\ resp = NoResponse
  /\ gwLog = << >>
  /\ transfersOK = [t \in Tasks |-> 0]
  /\ transferred = [u \in Users |-> 0]
  /\ credited = [u \in Users |-> 0]
  /\ refundsOK = [t \in Tasks |-> 0]
  /\ heldSpent = [t \in Tasks |-> 0]
  /\ gwOkCount = 0
  /\ gwFailures = 0

NextBatch ==
  \/ RetryBegin(Serial)
  \/ RetryPaid(Serial)
  \/ \E e \in GatewayErrors : RetryFailedAgain(Serial, e)
  \/ RetryWalletMissing(Serial)
  \/ RetryEnd(Serial)

SpecBatch == InitBatch /\ [][NextBatch]_vars

\* The loop of retryPayouts is sequential code: once the page is fetched, the
\* next iteration (or the return) is eventually executed.
SpecBatchFair ==
  /\ SpecBatch
  /\ WF_vars(\/ RetryPaid(Serial)
             \/ \E e \in GatewayErrors : RetryFailedAgain(Serial, e)
             \/ RetryWalletMissing(Serial)
             \/ RetryEnd(Serial))

\* Two retryPayouts passes in flight (the admin route and the earnings route
\* call the same service, which takes no lock and opens no transaction):
\* their fetches and their loop iterations interleave.
NextBatchConcurrent ==
  \/ \E p \in Procs : RetryBegin(p)
  \/ \E p \in Procs : RetryPaid(p)
  \/ \E p \in Procs, e \in GatewayErrors : RetryFailedAgain(p, e)
  \/ \E p \in Procs : RetryWalletMissing(p)
  \/ \E p \in Procs : RetryEnd(p)

SpecBatchConcurrent == InitBatch /\ [][NextBatchConcurrent]_vars

\* The gateway calls of the lifecycle actions over a range of amounts: the
\* state after createTaskPayment of one task, whose price, commission and fee
\* are any DECIMAL(19,4) values of the request body (whole cents, half a
\* cent, fractions of a cent), and after the tasker linked an account.
CentQuotes ==
  { [task_price |-> tp, commission |-> c, service_fee |-> f] :
      tp \in {10000, 10050, 12345, 12355, 100000},
      c \in {0, 1500}, f \in {0, 1000} }

InitCents ==
  /\ \E q \in CentQuotes, u \in Users, a \in Accounts :
       LET tp == TaskerPendingOnCreate(q.task_price, q.commission)
           cp == CompanyPendingOnCreate(q.commission, q.service_fee)
       IN /\ payments = << HeldPayment("task1", q) >>
          /\ wallets = [w \in Users |->
               [NewWallet EXCEPT !.pending_balance = tp,
                                 !.stripe_account_id = a,
                                 !.stripe_account_status = "ACTIVE"]]
          /\ company = [exists |-> TRUE, balance |-> 0,
                        pending_balance |-> cp, total_revenue |-> 0]
          /\ ledger =
               << LedgerRecord(u, FALSE, tp, "EARNING_PENDING", "PENDING", 1),
                  LedgerRecord("none", TRUE, cp, "FEE_PENDING", "PENDING", 1) >>
  /\ payouts = << >>
  /\ pendingPayouts = << >>
  /\ failedPayouts = << >>
  /\ adminReviews = << >>
  /\ failedRefunds = << >>
  /\ knownCodes = {}
  /\ req = [p \in Procs |-> Idle]
  /\ resp = NoResponse
  /\ gwLog = << >>
  /\ transfersOK = [t \in Tasks |-> 0]
  /\ transferred = [u \in Users |-> 0]
  /\ credited = [u \in Users |-> 0]
  /\ refundsOK = [t \in Tasks |-> 0]
  /\ heldSpent = [t \in Tasks |-> 0]
  /\ gwOkCount = 0
  /\ gwFailures = 0

NextCents ==
  \/ \E t \in OneTask, a \in LifecycleActions : ActionBegin(Serial, t, a)
  \/ CompletePaid(Serial)
  \/ \E e \in GatewayErrors : CompleteFailed(Serial, e)
  \/ \E e \in GatewayErrors : RefundFailed(Serial, e)
  \/ \E ok \in BOOLEAN : RefundCommit(Serial, ok)

SpecCents == InitCents /\ [][NextCents]_vars

\* ----------------------------------------------------------------- claims
\* The slot whose lifecycle action ends in this step
Finishes(p) == req[p].op = "action" /\ req'[p] = Idle

\* The step made exactly one gateway call of the kind, with the outcome
Called(kind, ok) ==
  /\ Len(gwLog') = 1
  /\ gwLog'[1].kind = kind
  /\ gwLog'[1].ok = ok

\* Failure Records of both variants held for the task
RecordsOf(fps, ars, task) ==
  Cardinality({i \in 1..Len(fps) : fps[i].task_id = task})
  + Cardinality({i \in 1..Len(ars) : ars[i].task_id = task})

PaymentsOf(tbl, task) == {i \in 1..Len(tbl) : tbl[i].related_task_id = task}

PayoutsOf(tbl, task) == {i \in 1..Len(tbl) : tbl[i].related_task_id = task}

\* C1: for every task, the gateway transfer of its payout succeeds at most
\* once, whichever of COMPLETE, retryPayouts, retryReviewPayout and the
\* queued-payout hook made it.
C1_TransferAtMostOncePerTask == \A t \in Tasks : transfersOK[t] <= 1

\* C2: for every payee, available_balance plus the total successfully
\* transferred equals the total moved into available by COMPLETE minus the
\* clawbacks and penalties.
C2_BalanceMatchesSettlement ==
  \A u \in Users : wallets[u].available_balance + transferred[u] = credited[u]

\* C3: a refund-class action whose gateway refund fails changes no payment,
\* wallet, platform account or ledger entry, adds one refund Failure Record
\* and ends with 502; a refund-class action changes local state only after a
\* successful gateway refund, or, for a payment without an intent, without
\* any gateway call; CANCEL and CANCEL_FULL on a payment without an intent
\* make no gateway call and mark the payment REFUNDED.
C3_RefundBeforeLocalChange ==
  [][\A p \in Procs :
       (Finishes(p) /\ req[p].action \in RefundActions) =>
         LET pay == payments[req[p].pay]
             n == Len(failedRefunds)
         IN /\ Called("refund", FALSE) =>
                 /\ UNCHANGED << payments, wallets, company, ledger >>
                 /\ Len(failedRefunds') = n + 1
                 /\ SubSeq(failedRefunds', 1, n) = failedRefunds
                 /\ failedRefunds'[n + 1].task_id = req[p].task
                 /\ failedRefunds'[n + 1].action = req[p].action
                 /\ resp'.code = 502
            /\ << payments, wallets, company, ledger >>' #
                 << payments, wallets, company, ledger >> =>
                 IF pay.stripe_payment_intent_id
                 THEN Called("refund", TRUE)
                 ELSE gwLog' = << >>
            /\ (~pay.stripe_payment_intent_id /\ req[p].action # "REFUND") =>
                 /\ gwLog' = << >>
                 /\ payments'[req[p].pay].status = "REFUNDED"
                 /\ resp'.code = 200
    ]_vars

\* C3 witness: a refund-class action has just failed at the gateway
C3_Witness ==
  /\ resp.op \in RefundActions /\ resp.code = 502
  /\ Len(gwLog) = 1 /\ gwLog[1].kind = "refund" /\ ~gwLog[1].ok
  /\ failedRefunds # << >>

\* C4: a COMPLETE that fails at the gateway leaves the payment PENDING and
\* the wallet and platform balances unchanged, and afterwards exactly one
\* Failure Record exists for the task, also when it is the second failure.
C4_OneRecordPerFailedComplete ==
  [][\A p \in Procs :
       (Finishes(p) /\ req[p].action = "COMPLETE" /\ Called("transfer", FALSE)) =>
         /\ UNCHANGED << payments, wallets, company >>
         /\ payments[req[p].pay].status = "PENDING"
         /\ RecordsOf(failedPayouts', adminReviews', req[p].task) = 1
    ]_vars

C6_HoldSpentAtMostOnce == \A t \in Tasks : heldSpent[t] <= 1

\* C7: no wallet's pending_balance or escrow_balance is negative and the
\* platform account's pending_balance is not negative.
C7_PendingNeverNegative ==
  /\ \A u \in Users : /\ wallets[u].pending_balance >= 0
                      /\ wallets[u].escrow_balance >= 0
  /\ company.pending_balance >= 0

\* C8: a step that takes a wallet's available_balance from non-negative to
\* negative is a CANCEL_FULL.
C8_NegativeOnlyByPenalty ==
  [][\A u \in Users :
       (wallets[u].available_balance >= 0 /\ wallets'[u].available_balance < 0) =>
         \E p \in Procs : Finishes(p) /\ req[p].action = "CANCEL_FULL"
    ]_vars

\* C9: a payment's status changes only PENDING -> COMPLETED, PENDING ->
\* REFUNDED or COMPLETED -> REFUNDED; a COMPLETE that ends on a payment no
\* longer PENDING, and any action that ends on a REFUNDED payment, changes no
\* payment, balance or ledger entry.
C9_OneShotTransitions ==
  [][/\ \A i \in 1..Len(payments) :
          \/ payments'[i].status = payments[i].status
          \/ << payments[i].status, payments'[i].status >> \in
               { << "PENDING", "COMPLETED" >>, << "PENDING", "REFUNDED" >>,
                 << "COMPLETED", "REFUNDED" >> }
     /\ \A p \in Procs :
          (Finishes(p) /\ req[p].action = "COMPLETE"
             /\ payments[req[p].pay].status # "PENDING") =>
            UNCHANGED << payments, wallets, company, ledger >>
     /\ \A p \in Procs :
          (Finishes(p) /\ payments[req[p].pay].status = "REFUNDED") =>
            UNCHANGED << payments, wallets, company, ledger >>
    ]_vars

\* C10: a successful create of (task_price p, commission c, service_fee f)
\* for payee t appends one PENDING payment of amount p + f, adds p - c to t's
\* pending_balance and c + f to the platform pending_balance, and appends
\* exactly two PENDING ledger entries referencing the payment, of p - c and
\* of c + f; the increases and the entries each sum to p + f, and 100/15/10
\* gives 85, 25 and 110.
C10_CreateEffects ==
  [][\A p \in Procs :
       (req[p].op = "create" /\ req'[p] = Idle /\ resp'.code = 200) =>
         LET q == req[p].quote
             t == req[p].user
             id == Len(payments) + 1
             n == Len(ledger)
             before == IF wallets[t].exists THEN wallets[t].pending_balance ELSE 0
             dWallet == wallets'[t].pending_balance - before
             dCompany == company'.pending_balance - company.pending_balance
         IN /\ Len(payments') = id
            /\ SubSeq(payments', 1, id - 1) = payments
            /\ payments'[id].related_task_id = req[p].task
            /\ payments'[id].status = "PENDING"
            /\ payments'[id].amount = q.task_price + q.service_fee
            /\ dWallet = q.task_price - q.commission
            /\ dCompany = q.commission + q.service_fee
            /\ dWallet + dCompany = payments'[id].amount
            /\ Len(ledger') = n + 2
            /\ SubSeq(ledger', 1, n) = ledger
            /\ ledger'[n + 1].type = "EARNING_PENDING"
            /\ ledger'[n + 1].to_wallet_id = t
            /\ ledger'[n + 1].amount = q.task_price - q.commission
            /\ ledger'[n + 2].type = "FEE_PENDING"
            /\ ledger'[n + 2].amount = q.commission + q.service_fee
            /\ \A k \in {n + 1, n + 2} :
                 ledger'[k].status = "PENDING" /\ ledger'[k].reference_id = id
            /\ ledger'[n + 1].amount + ledger'[n + 2].amount = payments'[id].amount
            /\ (q.task_price = 100 /\ q.commission = 15 /\ q.service_fee = 10) =>
                 dWallet = 85 /\ dCompany = 25 /\ payments'[id].amount = 110
    ]_vars

\* C10 witness: the 100/15/10 create has just committed
C10_Witness ==
  /\ resp.op = "create" /\ resp.code = 200
  /\ Len(payments) = 1 /\ payments[1].amount = 110 /\ payments[1].status = "PENDING"
  /\ \E u \in Users : wallets[u].pending_balance = 85
  /\ company.pending_balance = 25
  /\ Len(ledger) = 2

\* C11: a create answered 409 changes no table, and it is the answer whenever
\* the task already has a Payment of any status: no create transaction is
\* opened for such a task and its number of Payments does not grow.
C11_ConflictChangesNothing ==
  [][/\ (resp'.op = "create" /\ resp'.code = 409) =>
          /\ UNCHANGED dbVars
          /\ FindPayment(resp'.task, AllStatuses) # 0
     /\ \A p \in Procs :
          (req[p] = Idle /\ req'[p].op = "create") =>
            \A i \in 1..Len(payments) : payments[i].related_task_id # req'[p].task
     /\ \A t \in Tasks :
          (\E i \in 1..Len(payments) : payments[i].related_task_id = t) =>
            /\ Cardinality(PaymentsOf(payments', t)) = Cardinality(PaymentsOf(payments, t))
    ]_vars

\* C11 witness: a create for a task whose Payment is REFUNDED was answered 409
C11_Witness ==
  /\ resp.op = "create" /\ resp.code = 409
  /\ \E i \in 1..Len(payments) :
       payments[i].related_task_id = resp.task /\ payments[i].status = "REFUNDED"

\* C12: no task ever has two Payments; a create that ends without success
\* changes no table, and a create commits only for a task that has no
\* Payment, also when two creates of the task passed the existence check.
C12_OnePaymentPerTask ==
  [][/\ \A t \in Tasks : Cardinality(PaymentsOf(payments', t)) <= 1
     /\ \A p \in Procs :
          (req[p].op = "create" /\ req'[p] = Idle) =>
            IF PaymentsOf(payments, req[p].task) = {}
            THEN /\ resp'.code = 200
                 /\ Cardinality(PaymentsOf(payments', req[p].task)) = 1
            ELSE /\ resp'.code # 200
                 /\ UNCHANGED dbVars
    ]_vars

\* C12 witness: of two creates of the task that both passed the existence
\* check one has committed and the other has just been refused
C12_Witness ==
  /\ resp.op = "create" /\ resp.code = 400
  /\ Cardinality(PaymentsOf(payments, resp.task)) = 1
  /\ \E u \in Users : wallets[u].pending_balance = 85
  /\ company.pending_balance = 25

\* C13: a create that ends without success leaves every table as it was; a
\* step adds a Payment exactly when it adds the payee's and the platform's
\* pending increase and the two ledger entries of that Payment.
C13_CreateAllOrNothing ==
  [][/\ \A p \in Procs :
          (req[p].op = "create" /\ req'[p] = Idle /\ resp'.code # 200) =>
            UNCHANGED dbVars
     /\ LET grown == Len(payments') > Len(payments)
            held == \/ company'.pending_balance > company.pending_balance
                    \/ \E u \in Users :
                         wallets'[u].pending_balance > wallets[u].pending_balance
            logged == Len(ledger') > Len(ledger)
        IN /\ (grown \/ held \/ logged) =>
                /\ Len(payments') = Len(payments) + 1
                /\ Len(ledger') = Len(ledger) + 2
                /\ \A k \in (Len(ledger) + 1)..Len(ledger') :
                     ledger'[k].reference_id = Len(payments')
                /\ company'.pending_balance =
                     company.pending_balance + ledger'[Len(ledger')].amount
                /\ \E u \in Users :
                     /\ ledger'[Len(ledger) + 1].to_wallet_id = u
                     /\ wallets'[u].pending_balance =
                          wallets[u].pending_balance + ledger'[Len(ledger) + 1].amount
    ]_vars

\* C13 witness: the last write of a create (the fee ledger entry) has just
\* failed and nothing of the create is in the tables
C13_Witness ==
  /\ resp.op = "create" /\ resp.code = 500 /\ resp.status = "ledgerFee"
  /\ payments = << >> /\ ledger = << >>
  /\ company.pending_balance = 0
  /\ \A u \in Users : wallets[u].pending_balance = 0

\* C14: a CANCEL that succeeds on a payment it read as PENDING refunds
\* gross - fee through the gateway (when the payment has an intent), takes
\* task_price - commission out of the payee's pending_balance, takes
\* commission + fee out of the platform's pending_balance, adds the fee alone
\* to the platform's balance and total_revenue, and leaves the Payment
\* REFUNDED.
C14_CancelPending ==
  [][\A p \in Procs :
       (/\ Finishes(p) /\ req[p].action = "CANCEL"
        /\ req[p].status = "PENDING" /\ resp'.code = 200) =>
         LET pay == payments[req[p].pay]
             u == req[p].user
             price == pay.amount - pay.service_fee
         IN /\ IF pay.stripe_payment_intent_id
               THEN /\ Called("refund", TRUE)
                    /\ gwLog'[1].amount = pay.amount - pay.service_fee
               ELSE gwLog' = << >>
            /\ wallets'[u].pending_balance =
                 wallets[u].pending_balance - (price - pay.commission)
            /\ wallets'[u].available_balance = wallets[u].available_balance
            /\ company'.pending_balance =
                 company.pending_balance - (pay.commission + pay.service_fee)
            /\ company'.balance = company.balance + pay.service_fee
            /\ company'.total_revenue = company.total_revenue + pay.service_fee
            /\ payments'[req[p].pay].status = "REFUNDED"
            /\ resp'.status = "CANCELLED"
    ]_vars

\* C14 witness: gross 110 with fee 10 and commission 15 was cancelled while
\* PENDING: 100 refunded, the platform keeps 10
C14_Witness ==
  /\ resp.op = "CANCEL" /\ resp.code = 200
  /\ Len(gwLog) = 1 /\ gwLog[1].kind = "refund" /\ gwLog[1].amount = 100
  /\ company.balance = 10 /\ company.total_revenue = 10
  /\ company.pending_balance = 0
  /\ \A u \in Users : wallets[u].pending_balance = 0
  /\ \E i \in 1..Len(payments) :
       payments[i].status = "REFUNDED" /\ payments[i].amount = 110

\* C15: a CANCEL_FULL that succeeds refunds the full gross through the
\* gateway (when the payment has an intent); the payee's and the platform's
\* held amounts are reversed on the side they were held (pending for a
\* payment read as PENDING, available / balance and revenue for COMPLETED);
\* on top the payee's available_balance loses the commission, possibly
\* going negative, and the platform's balance and revenue gain it; the
\* Payment is REFUNDED.
C15_CancelFull ==
  [][\A p \in Procs :
       (Finishes(p) /\ req[p].action = "CANCEL_FULL" /\ resp'.code = 200) =>
         LET pay == payments[req[p].pay]
             u == req[p].user
             st == req[p].status
             earn == pay.amount - pay.service_fee - pay.commission
             held == pay.commission + pay.service_fee
         IN /\ IF pay.stripe_payment_intent_id
               THEN Called("refund", TRUE) /\ gwLog'[1].amount = pay.amount
               ELSE gwLog' = << >>
            /\ st \in {"PENDING", "COMPLETED"}
            /\ st = "PENDING" =>
                 /\ wallets'[u].pending_balance = wallets[u].pending_balance - earn
                 /\ wallets'[u].available_balance =
                      wallets[u].available_balance - pay.commission
                 /\ company'.pending_balance = company.pending_balance - held
                 /\ company'.balance = company.balance + pay.commission
                 /\ company'.total_revenue = company.total_revenue + pay.commission
            /\ st = "COMPLETED" =>
                 /\ wallets'[u].pending_balance = wallets[u].pending_balance
                 /\ wallets'[u].available_balance =
                      wallets[u].available_balance - earn - pay.commission
                 /\ company'.pending_balance = company.pending_balance
                 /\ company'.balance = company.balance - held + pay.commission
                 /\ company'.total_revenue =
                      company.total_revenue - held + pay.commission
            /\ payments'[req[p].pay].status = "REFUNDED"
            /\ resp'.status = "CANCELLED_FULL"
    ]_vars

\* C15 witness: gross 110 with commission 15 was fully cancelled while
\* PENDING: 110 refunded, the payee owes the penalty of 15
C15_Witness ==
  /\ resp.op = "CANCEL_FULL" /\ resp.code = 200
  /\ Len(gwLog) = 1 /\ gwLog[1].kind = "refund" /\ gwLog[1].amount = 110
  /\ company.balance = 15 /\ company.total_revenue = 15
  /\ company.pending_balance = 0
  /\ \E u \in Users :
       wallets[u].available_balance = -15 /\ wallets[u].pending_balance = 0

\* C16: a REFUND aimed at a PENDING or COMPLETED payment without an intent
\* is answered 400 with no gateway call and no change to any table (no
\* Failure Record either); a REFUND that succeeds refunds the full gross
\* through the gateway, reverses exactly the held amounts, with no penalty
\* and nothing retained, and leaves the Payment REFUNDED.
C16_Refund ==
  [][/\ \A t \in Tasks :
          (/\ resp'.op = "REFUND" /\ resp'.task = t
           /\ LookupPayment(t, "REFUND") # 0
           /\ ~payments[LookupPayment(t, "REFUND")].stripe_payment_intent_id) =>
             /\ resp'.code = 400
             /\ gwLog' = << >>
             /\ UNCHANGED dbVars
     /\ \A p \in Procs :
          (Finishes(p) /\ req[p].action = "REFUND" /\ resp'.code = 200) =>
            LET pay == payments[req[p].pay]
                u == req[p].user
                st == req[p].status
                earn == pay.amount - pay.service_fee - pay.commission
                held == pay.commission + pay.service_fee
            IN /\ pay.stripe_payment_intent_id
               /\ Called("refund", TRUE) /\ gwLog'[1].amount = pay.amount
               /\ st \in {"PENDING", "COMPLETED"}
               /\ st = "PENDING" =>
                    /\ wallets'[u].pending_balance = wallets[u].pending_balance - earn
                    /\ wallets'[u].available_balance = wallets[u].available_balance
                    /\ company'.pending_balance = company.pending_balance - held
                    /\ company'.balance = company.balance
                    /\ company'.total_revenue = company.total_revenue
               /\ st = "COMPLETED" =>
                    /\ wallets'[u].pending_balance = wallets[u].pending_balance
                    /\ wallets'[u].available_balance =
                         wallets[u].available_balance - earn
                    /\ company'.pending_balance = company.pending_balance
                    /\ company'.balance = company.balance - held
                    /\ company'.total_revenue = company.total_revenue - held
               /\ payments'[req[p].pay].status = "REFUNDED"
    ]_vars

\* C16 witness: a REFUND was just refused for a PENDING payment that has
\* no intent
C16_Witness ==
  /\ resp.op = "REFUND" /\ resp.code = 400
  /\ gwLog = << >> /\ failedRefunds = << >>
  /\ \E i \in 1..Len(payments) :
       /\ payments[i].related_task_id = resp.task
       /\ payments[i].status = "PENDING"
       /\ ~payments[i].stripe_payment_intent_id

\* C17: a COMPLETE whose payee has no linked account succeeds with status
\* PAYOUT_QUEUED: no gateway call, the payee's hold moves from pending to
\* available, the platform's from pending to balance and revenue, exactly
\* one queued payout (PENDING, amount price - commission) is added in the
\* same commit, no Failure Record is written and the Payment is COMPLETED.
C17_CompleteQueuesPayout ==
  [][\A p \in Procs :
       (/\ Finishes(p) /\ req[p].action = "COMPLETE"
        /\ req[p].stripe_account_id = NoAccount) =>
         LET pay == payments[req[p].pay]
             u == req[p].user
             earn == pay.amount - pay.service_fee - pay.commission
             held == pay.commission + pay.service_fee
             n == Len(pendingPayouts)
         IN /\ gwLog' = << >>
            /\ resp'.code = 200 /\ resp'.status = "PAYOUT_QUEUED"
            /\ wallets'[u].pending_balance = wallets[u].pending_balance - earn
            /\ wallets'[u].available_balance = wallets[u].available_balance + earn
            /\ company'.pending_balance = company.pending_balance - held
            /\ company'.balance = company.balance + held
            /\ company'.total_revenue = company.total_revenue + held
            /\ Len(pendingPayouts') = n + 1
            /\ SubSeq(pendingPayouts', 1, n) = pendingPayouts
            /\ pendingPayouts'[n + 1] =
                 [task_id |-> req[p].task, user_id |-> u, amount |-> earn,
                  status |-> "PENDING"]
            /\ payments'[req[p].pay].status = "COMPLETED"
            /\ UNCHANGED << payouts, failedPayouts, adminReviews, failedRefunds >>
    ]_vars

\* C17 witness: the payout of 85 was queued for a payee without an account
C17_Witness ==
  /\ resp.op = "COMPLETE" /\ resp.code = 200 /\ resp.status = "PAYOUT_QUEUED"
  /\ Len(pendingPayouts) = 1 /\ pendingPayouts[1].amount = 85
  /\ pendingPayouts[1].status = "PENDING"
  /\ \E u \in Users :
       /\ wallets[u].stripe_account_id = NoAccount
       /\ wallets[u].available_balance = 85 /\ wallets[u].pending_balance = 0
  /\ \E i \in 1..Len(payments) : payments[i].status = "COMPLETED"

\* C18: for every task, the gateway refund succeeds at most once over the
\* refund-class actions (re-invoked after a failure or not) and the
\* administrator's retries of the task's failed-refund records.
C18_RefundAtMostOnce == \A t \in Tasks : refundsOK[t] <= 1

\* C19: for every task there is at most one Failure Record of each kind
\* (retryable payout, admin review, failed refund), however many settlement
\* attempts failed.
C19_OneRecordPerVariant ==
  \A t \in Tasks :
    /\ Cardinality({i \in 1..Len(failedPayouts) : failedPayouts[i].task_id = t}) <= 1
    /\ Cardinality({i \in 1..Len(adminReviews) : adminReviews[i].task_id = t}) <= 1
    /\ Cardinality({i \in 1..Len(failedRefunds) : failedRefunds[i].task_id = t}) <= 1

\* C20: a lifecycle action (COMPLETE or refund-class) that fails at the
\* gateway leaves, for its task, either a retryable record with status
\* PENDING and an allow-listed code, the admin-review table untouched, or an
\* admin-review record with status ADMIN_REVIEW_REQUIRED and a code off the
\* allow-list, the retryable table untouched; a newly inserted retryable
\* record has retry_count 0.
C20_ClassifiedOnFailure ==
  [][\A p \in Procs :
       (Finishes(p) /\ Len(gwLog') = 1 /\ ~gwLog'[1].ok) =>
         LET t == req[p].task
             n == Len(failedPayouts)
         IN /\ \/ /\ \E i \in 1..Len(failedPayouts') :
                        /\ failedPayouts'[i].task_id = t
                        /\ failedPayouts'[i].status = "PENDING"
                        /\ failedPayouts'[i].error_code \in knownCodes
                   /\ adminReviews' = adminReviews
               \/ /\ \E i \in 1..Len(adminReviews') :
                        /\ adminReviews'[i].task_id = t
                        /\ adminReviews'[i].status = "ADMIN_REVIEW_REQUIRED"
                        /\ adminReviews'[i].error_code \notin knownCodes
                   /\ failedPayouts' = failedPayouts
            /\ Len(failedPayouts') > n => failedPayouts'[n + 1].retry_count = 0
    ]_vars

\* The same, for a failing COMPLETE alone
C20_CompleteClassified ==
  [][\A p \in Procs :
       (/\ Finishes(p) /\ req[p].action = "COMPLETE"
        /\ Len(gwLog') = 1 /\ ~gwLog'[1].ok) =>
         LET t == req[p].task
             n == Len(failedPayouts)
         IN /\ \/ /\ \E i \in 1..Len(failedPayouts') :
                        /\ failedPayouts'[i].task_id = t
                        /\ failedPayouts'[i].status = "PENDING"
                        /\ failedPayouts'[i].error_code \in knownCodes
                   /\ adminReviews' = adminReviews
               \/ /\ \E i \in 1..Len(adminReviews') :
                        /\ adminReviews'[i].task_id = t
                        /\ adminReviews'[i].status = "ADMIN_REVIEW_REQUIRED"
                        /\ adminReviews'[i].error_code \notin knownCodes
                   /\ failedPayouts' = failedPayouts
            /\ Len(failedPayouts') > n => failedPayouts'[n + 1].retry_count = 0
    ]_vars

\* C21: in a retryPayouts pass, a retryable record whose transfer succeeds
\* becomes SUCCESS and an audit payout record of its task and amount is
\* written with it; a record whose transfer fails keeps status PENDING and
\* its retry_count grows by exactly 1.
C21_BatchOutcome ==
  [][\A i \in 1..Len(failedPayouts) :
       LET fp == failedPayouts[i]
           touched == /\ Len(gwLog') = 1 /\ gwLog'[1].kind = "transfer"
                      /\ gwLog'[1].task = fp.task_id
                      /\ \E p \in Procs :
                           /\ req[p].op = "retry" /\ req[p].todo # << >>
                           /\ Head(req[p].todo).id = i
                           /\ req'[p] # req[p]
       IN /\ (touched /\ gwLog'[1].ok) =>
               /\ failedPayouts'[i].status = "SUCCESS"
               /\ Len(payouts') = Len(payouts) + 1
               /\ payouts'[Len(payouts')].related_task_id = fp.task_id
               /\ payouts'[Len(payouts')].amount = fp.amount
          /\ (touched /\ ~gwLog'[1].ok) =>
               /\ failedPayouts'[i].status = "PENDING"
               /\ failedPayouts'[i].retry_count = fp.retry_count + 1
    ]_vars

\* The same without the audit payout record
C21_BatchStatuses ==
  [][\A i \in 1..Len(failedPayouts) :
       LET fp == failedPayouts[i]
           touched == /\ Len(gwLog') = 1 /\ gwLog'[1].kind = "transfer"
                      /\ gwLog'[1].task = fp.task_id
                      /\ \E p \in Procs :
                           /\ req[p].op = "retry" /\ req[p].todo # << >>
                           /\ Head(req[p].todo).id = i
                           /\ req'[p] # req[p]
       IN /\ (touched /\ gwLog'[1].ok) => failedPayouts'[i].status = "SUCCESS"
          /\ (touched /\ ~gwLog'[1].ok) =>
               /\ failedPayouts'[i].status = "PENDING"
               /\ failedPayouts'[i].retry_count = fp.retry_count + 1
    ]_vars

\* C22: a gateway transfer is attempted for an admin-review record only by
\* retryReviewPayout and only when the record's destination account has
\* been edited; the steps of retryPayouts leave the admin-review table as
\* it is.
C22_RetryOnlyAfterEdit ==
  [][/\ \A id \in 1..Len(adminReviews) :
          (/\ resp'.op = "retryReviewPayout" /\ Len(gwLog') = 1
           /\ adminReviews[id].status = "ADMIN_REVIEW_REQUIRED"
           /\ gwLog'[1].task = adminReviews[id].task_id) =>
             adminReviews[id].edited
     /\ \A p \in Procs :
          (req'[p] # req[p] /\ (req[p].op = "retry" \/ req'[p].op = "retry")) =>
            adminReviews' = adminReviews
    ]_vars

\* The part of it about retryPayouts alone
C22_BatchLeavesReviews ==
  [][\A p \in Procs :
       (req'[p] # req[p] /\ (req[p].op = "retry" \/ req'[p].op = "retry")) =>
         adminReviews' = adminReviews
    ]_vars

\* A Failure Record of any table exists for the task
HasFailureRecord(fps, ars, frs, task) ==
  \/ \E i \in 1..Len(fps) : fps[i].task_id = task
  \/ \E i \in 1..Len(ars) : ars[i].task_id = task
  \/ \E i \in 1..Len(frs) : frs[i].task_id = task

\* The slot's run of the queued-payout hook ends in this step, and a payout
\* it fetched has failed at the gateway
HookReturnsAfterFailure(p) ==
  /\ req[p].op = "hook" /\ req'[p] = Idle
  /\ \E k \in 1..Len(req[p].fetched) :
       pendingPayouts[req[p].fetched[k]].status = "FAILED"

\* C23: a lifecycle action whose gateway call fails returns an error and a
\* Failure Record of its task is persisted; a queued-payout hook run in
\* which a transfer fails persists a Failure Record for that payout's task
\* and returns an error.
C23_NoFailureLost ==
  [][\A p \in Procs :
       /\ (Finishes(p) /\ Len(gwLog') = 1 /\ ~gwLog'[1].ok) =>
            /\ resp'.code >= 400
            /\ HasFailureRecord(failedPayouts', adminReviews', failedRefunds',
                                req[p].task)
       /\ (/\ req[p].op = "hook" /\ req'[p] # req[p]
           /\ Len(gwLog') = 1 /\ ~gwLog'[1].ok) =>
            HasFailureRecord(failedPayouts', adminReviews', failedRefunds',
                             gwLog'[1].task)
       /\ HookReturnsAfterFailure(p) => resp'.code >= 400
    ]_vars

\* The same without the hook's response
C23_FailureRecorded ==
  [][\A p \in Procs :
       /\ (Finishes(p) /\ Len(gwLog') = 1 /\ ~gwLog'[1].ok) =>
            /\ resp'.code >= 400
            /\ HasFailureRecord(failedPayouts', adminReviews', failedRefunds',
                                req[p].task)
       /\ (/\ req[p].op = "hook" /\ req'[p] # req[p]
           /\ Len(gwLog') = 1 /\ ~gwLog'[1].ok) =>
            HasFailureRecord(failedPayouts', adminReviews', failedRefunds',
                             gwLog'[1].task)
    ]_vars

\* The Payment of the task is terminal for the action: COMPLETE finds it
\* COMPLETED or refunded, a refund-class action finds it refunded
TerminalFor(action, task) ==
  /\ PaymentsOf(payments, task) # {}
  /\ \A i \in PaymentsOf(payments, task) :
       IF action = "COMPLETE"
       THEN payments[i].status \in {"COMPLETED"} \cup RefundedStatuses
       ELSE payments[i].status \in RefundedStatuses

\* C24: a lifecycle action is answered 404 only when the task has no
\* Payment at all, 400 when its Payment is terminal for the action, and 502
\* when the gateway call of the action failed.
C24_StatusCodes ==
  [][\A t \in Tasks, a \in LifecycleActions :
       (resp'.op = a /\ resp'.task = t /\ resp'.code # 0) =>
         /\ resp'.code = 404 => PaymentsOf(payments, t) = {}
         /\ TerminalFor(a, t) => resp'.code = 400
         /\ (Len(gwLog') = 1 /\ ~gwLog'[1].ok) => resp'.code = 502
    ]_vars

\* The same for the refund-class actions alone
C24_RefundStatusCodes ==
  [][\A t \in Tasks, a \in RefundActions :
       (resp'.op = a /\ resp'.task = t /\ resp'.code # 0) =>
         /\ resp'.code = 404 => PaymentsOf(payments, t) = {}
         /\ TerminalFor(a, t) => resp'.code = 400
         /\ (Len(gwLog') = 1 /\ ~gwLog'[1].ok) => resp'.code = 502
    ]_vars

\* C25: the ledger is append-only and its entries are immutable: no step
\* removes an entry or changes any field of an entry recorded before it.
C25_LedgerImmutable ==
  [][/\ Len(ledger') >= Len(ledger)
     /\ \A i \in 1..Len(ledger) : ledger'[i] = ledger[i]
    ]_vars

\* The same for every field but the status
C25_LedgerImmutableButStatus ==
  [][/\ Len(ledger') >= Len(ledger)
     /\ \A i \in 1..Len(ledger) :
          [ledger'[i] EXCEPT !.status = "any"] = [ledger[i] EXCEPT !.status = "any"]
    ]_vars

\* Balance fields of the wallets and of the platform account that the step
\* changes
BalanceFieldsChanged ==
  Cardinality({u \in Users : wallets'[u].available_balance # wallets[u].available_balance})
  + Cardinality({u \in Users : wallets'[u].pending_balance # wallets[u].pending_balance})
  + (IF company'.balance # company.balance THEN 1 ELSE 0)
  + (IF company'.pending_balance # company.pending_balance THEN 1 ELSE 0)

\* C26: every step records exactly as many ledger entries as it changes
\* balance fields of wallets and of the platform account.
C26_LedgerPerMutation ==
  [][Len(ledger') - Len(ledger) = BalanceFieldsChanged]_vars

\* The same for the steps of createTaskPayment alone
C26_LedgerPerMutationOnCreate ==
  [][(\E p \in Procs : req[p].op = "create" /\ req'[p] = Idle) =>
       Len(ledger') - Len(ledger) = BalanceFieldsChanged]_vars

\* C27: a retryPayouts pass handles the records of its fetched page (at most
\* PageLimit, all PENDING when fetched) one by one and in order, each
\* exactly once whatever the outcome of the one before; it always returns,
\* and it returns processed = page size and success + failed = processed.
C27_BatchCompletes ==
  /\ [][\A p \in Procs :
          /\ (req[p] = Idle /\ req'[p].op = "retry") =>
               /\ Len(req'[p].pending) <= PageLimit
               /\ req'[p].todo = req'[p].pending
               /\ \A k \in 1..Len(req'[p].pending) :
                    failedPayouts[req'[p].pending[k].id].status = "PENDING"
               /\ \A j, k \in 1..Len(req'[p].pending) :
                    j < k => req'[p].pending[j].id < req'[p].pending[k].id
          /\ (req[p].op = "retry" /\ req'[p].op = "retry" /\ req'[p] # req[p]) =>
               /\ req[p].todo # << >>
               /\ req'[p].todo = Tail(req[p].todo)
               /\ req'[p].processed = req[p].processed + 1
               /\ req'[p].success + req'[p].failed = req'[p].processed
               /\ req'[p].processed + Len(req'[p].todo) = Len(req[p].pending)
               /\ \A i \in 1..Len(failedPayouts) :
                    i # Head(req[p].todo).id => failedPayouts'[i] = failedPayouts[i]
          /\ (req[p].op = "retry" /\ req'[p] = Idle) =>
               /\ resp'.op = "retryPayouts"
               /\ resp'.processed = Len(req[p].pending)
               /\ resp'.success + resp'.failed = resp'.processed
      ]_vars
  /\ \A p \in Procs : (req[p].op = "retry") ~> (req[p] = Idle)

\* C27 witness: a pass over two records has returned, one transfer having
\* succeeded after the other had failed
C27_Witness ==
  /\ resp.op = "retryPayouts" /\ resp.processed = 2
  /\ resp.success = 1 /\ resp.failed = 1
  /\ Len(failedPayouts) = 2
  /\ failedPayouts[1].status = "PENDING" /\ failedPayouts[1].retry_count = 1
  /\ failedPayouts[2].status = "SUCCESS"

\* C28: every step of a retryPayouts pass leaves the wallets, the platform
\* account, the payments and the ledger as they are; a transfer it makes
\* carries the amount and the destination account stored in the record; a
\* record whose user has no wallet becomes FAILED without a gateway call; a
\* record whose transfer fails stays PENDING with retry_count one higher.
C28_BatchUsesStoredRecord ==
  [][\A p \in Procs :
       (req[p].op = "retry" /\ req'[p] # req[p]) =>
         /\ UNCHANGED << payments, wallets, company, ledger >>
         /\ req[p].todo # << >> =>
              LET i == Head(req[p].todo).id
                  fp == failedPayouts[i]
              IN /\ Len(gwLog') <= 1
                 /\ Len(gwLog') = 1 =>
                      /\ gwLog'[1].kind = "transfer"
                      /\ gwLog'[1].task = fp.task_id
                      /\ gwLog'[1].amount = fp.amount
                      /\ gwLog'[1].dest = fp.stripe_connect_account_id
                 /\ ~wallets[fp.user_id].exists =>
                      /\ gwLog' = << >>
                      /\ failedPayouts'[i].status = "FAILED"
                 /\ (Len(gwLog') = 1 /\ ~gwLog'[1].ok) =>
                      /\ failedPayouts'[i].status = "PENDING"
                      /\ failedPayouts'[i].retry_count = fp.retry_count + 1
    ]_vars

\* C28 witness: the pass has just transferred the stored 85 to the stored
\* account while the wallet is linked to another account and holds nothing
\* available
C28_Witness ==
  /\ \E p \in Procs : req[p].op = "retry"
  /\ Len(gwLog) = 1 /\ gwLog[1].kind = "transfer" /\ gwLog[1].ok
  /\ gwLog[1].amount = 85 /\ gwLog[1].dest = "acct_1"
  /\ \E u \in Users :
       /\ wallets[u].exists /\ wallets[u].stripe_account_id = "acct_2"
       /\ wallets[u].available_balance = 0 /\ wallets[u].pending_balance = 90

\* C29: a COMPLETE that succeeds for a payee with a linked account takes
\* the available_balance as it is after the credit of price - commission: if
\* it is positive, exactly that amount goes to the gateway, to the linked
\* account, is deducted again and is the amount of the one payout record
\* added; if it is zero or negative there is no gateway call and no payout
\* record; in both cases the Payment is COMPLETED.
C29_PayoutIsFreshBalance ==
  [][\A p \in Procs :
       (/\ Finishes(p) /\ req[p].action = "COMPLETE"
        /\ req[p].stripe_account_id # NoAccount /\ resp'.code = 200) =>
         LET u == req[p].user
             pay == payments[req[p].pay]
             fresh == wallets[u].available_balance
                        + (pay.amount - pay.service_fee - pay.commission)
         IN /\ IF fresh > 0
               THEN /\ Called("transfer", TRUE)
                    /\ gwLog'[1].amount = fresh
                    /\ gwLog'[1].dest = req[p].stripe_account_id
                    /\ wallets'[u].available_balance = fresh - gwLog'[1].amount
                    /\ Len(payouts') = Len(payouts) + 1
                    /\ SubSeq(payouts', 1, Len(payouts)) = payouts
                    /\ payouts'[Len(payouts')].related_task_id = req[p].task
                    /\ payouts'[Len(payouts')].amount = gwLog'[1].amount
               ELSE /\ gwLog' = << >>
                    /\ payouts' = payouts
                    /\ wallets'[u].available_balance = fresh
            /\ payments'[req[p].pay].status = "COMPLETED"
            /\ resp'.status = "COMPLETED"
    ]_vars

\* C29 witness: a COMPLETE for a payee with a linked account and a balance
\* still negative after the credit has just completed the payment without a
\* transfer and without a payout record
C29_Witness ==
  /\ resp.op = "COMPLETE" /\ resp.code = 200 /\ resp.status = "COMPLETED"
  /\ gwLog = << >>
  /\ PayoutsOf(payouts, resp.task) = {}
  /\ FindPayment(resp.task, {"COMPLETED"}) # 0
  /\ \E u \in Users :
       /\ wallets[u].stripe_account_id # NoAccount
       /\ wallets[u].available_balance < 0

\* C30: a refund-class action that succeeds on a payment it read as
\* COMPLETED takes price - commission out of the payee's available_balance
\* and leaves both pending balances alone; the platform's balance and
\* revenue lose the commission alone on CANCEL, commission + fee on REFUND,
\* and commission + fee less the commission added back as penalty on
\* CANCEL_FULL, which also charges the commission to the payee.
C30_Clawback ==
  [][\A p \in Procs :
       (/\ Finishes(p) /\ req[p].action \in RefundActions
        /\ req[p].status = "COMPLETED" /\ resp'.code = 200) =>
         LET pay == payments[req[p].pay]
             u == req[p].user
             a == req[p].action
             earn == pay.amount - pay.service_fee - pay.commission
             penalty == IF a = "CANCEL_FULL" THEN pay.commission ELSE 0
             lost == IF a = "CANCEL" THEN pay.commission
                     ELSE pay.commission + pay.service_fee - penalty
         IN /\ wallets'[u].available_balance =
                 wallets[u].available_balance - earn - penalty
            /\ wallets'[u].pending_balance = wallets[u].pending_balance
            /\ company'.pending_balance = company.pending_balance
            /\ company'.balance = company.balance - lost
            /\ company'.total_revenue = company.total_revenue - lost
            /\ payments'[req[p].pay].status = "REFUNDED"
    ]_vars

\* C30 witness: a CANCEL has clawed back a COMPLETED and paid-out payment:
\* the payee owes 85, the platform keeps the fee of 10
C30_Witness ==
  /\ resp.op = "CANCEL" /\ resp.code = 200
  /\ Len(payouts) = 1 /\ payouts[1].amount = 85
  /\ company.balance = 10 /\ company.total_revenue = 10
  /\ company.pending_balance = 0
  /\ \E u \in Users :
       wallets[u].available_balance = -85 /\ wallets[u].pending_balance = 0

\* The admin-review record of the task the response is about
ReviewOf(task) ==
  FirstIndex({i \in 1..Len(adminReviews) : adminReviews[i].task_id = task})

C32_RefundRetryBookkeeping ==
  [][(resp'.op = "retryFailedRefund" /\ req' = req) =>
       IF failedRefunds' = failedRefunds
       THEN /\ resp'.code = 400
            /\ gwLog' = << >>
            /\ UNCHANGED dbVars
            /\ \E id \in 1..Len(failedRefunds) :
                 /\ failedRefunds[id].task_id = resp'.task
                 /\ failedRefunds[id].status = "SUCCESS"
       ELSE \E id \in 1..Len(failedRefunds) :
              LET rr == failedRefunds[id]
              IN /\ rr.status # "SUCCESS"
                 /\ Len(failedRefunds') = Len(failedRefunds)
                 /\ \A k \in 1..Len(failedRefunds) :
                      k # id => failedRefunds'[k] = failedRefunds[k]
                 /\ failedRefunds'[id].retry_count = rr.retry_count + 1
                 /\ Len(gwLog') = 1 /\ gwLog'[1].kind = "refund"
                 /\ gwLog'[1].amount = rr.amount
                 /\ IF gwLog'[1].ok
                    THEN /\ failedRefunds'[id].status = "SUCCESS"
                         /\ payments'[rr.payment_id].status = "REFUNDED"
                         /\ \A k \in 1..Len(payments) :
                              k # rr.payment_id => payments'[k] = payments[k]
                         /\ resp'.code = 200
                    ELSE /\ failedRefunds'[id].status = "FAILED"
                         /\ payments' = payments
                         /\ resp'.code = 400
    ]_vars

\* C32 witness: a request that failed on its first retry has been retried
\* again and succeeded, and its Payment is REFUNDED
C32_Witness ==
  /\ resp.op = "retryFailedRefund" /\ resp.code = 200
  /\ \E id \in 1..Len(failedRefunds) :
       /\ failedRefunds[id].status = "SUCCESS"
       /\ failedRefunds[id].retry_count = 2
       /\ payments[failedRefunds[id].payment_id].status = "REFUNDED"

\* The handler's steps one request at a time (for C33): updatePayoutDetails
\* fetches only PENDING queued records, each once;
\* when it comes to a record, the record is still PENDING and the wallet has
\* a linked account; with available_balance below the amount it makes no
\* gateway call and changes nothing; otherwise it sends one transfer of the
\* amount, and on success decrements available_balance by it, adds one
\* payout record and marks the record PROCESSED, on failure marks it FAILED
\* and leaves a classified Failure Record for the task.
C33_QueuedPayoutProcessing ==
  [][\A p \in Procs :
       /\ (req[p] = Idle /\ req'[p] # Idle /\ req'[p].op = "hook") =>
            LET f == req'[p].fetched
            IN /\ \A k \in 1..Len(f) :
                    /\ pendingPayouts[f[k]].status = "PENDING"
                    /\ pendingPayouts[f[k]].user_id = req'[p].user
               /\ \A k, l \in 1..Len(f) : f[k] = f[l] => k = l
               /\ gwLog' = << >>
       /\ (/\ req[p] # Idle /\ req[p].op = "hook" /\ req[p].todo # << >>
           /\ req'[p] # req[p]) =>
            LET id == Head(req[p].todo)
                po == pendingPayouts[id]
                u == req[p].user
                n == Len(payouts)
            IN /\ po.status = "PENDING"
               /\ wallets[u].stripe_account_id # NoAccount
               /\ IF wallets[u].available_balance < po.amount
                  THEN gwLog' = << >> /\ UNCHANGED dbVars
                  ELSE /\ Len(gwLog') = 1 /\ gwLog'[1].kind = "transfer"
                       /\ gwLog'[1].amount = po.amount
                       /\ gwLog'[1].task = po.task_id
                       /\ IF gwLog'[1].ok
                          THEN /\ wallets' = [wallets EXCEPT
                                    ![u].available_balance = @ - po.amount]
                               /\ Len(payouts') = n + 1
                               /\ SubSeq(payouts', 1, n) = payouts
                               /\ payouts'[n + 1].related_task_id = po.task_id
                               /\ payouts'[n + 1].amount = po.amount
                               /\ pendingPayouts' = [pendingPayouts EXCEPT
                                    ![id].status = "PROCESSED"]
                               /\ UNCHANGED << failedPayouts, adminReviews >>
                          ELSE /\ wallets' = wallets /\ payouts' = payouts
                               /\ pendingPayouts' = [pendingPayouts EXCEPT
                                    ![id].status = "FAILED"]
                               /\ \/ /\ \E i \in 1..Len(failedPayouts') :
                                          /\ failedPayouts'[i].task_id = po.task_id
                                          /\ failedPayouts'[i].status = "PENDING"
                                     /\ adminReviews' = adminReviews
                                  \/ /\ \E i \in 1..Len(adminReviews') :
                                          /\ adminReviews'[i].task_id = po.task_id
                                          /\ adminReviews'[i].status = "ADMIN_REVIEW_REQUIRED"
                                     /\ failedPayouts' = failedPayouts
    ]_vars

\* C33: updatePayoutDetails sends a transfer for a queued record only while
\* the record is PENDING: a PROCESSED or FAILED record is never processed
\* again.
C33_ProcessedAtMostOnce ==
  [][\A p \in Procs :
       (/\ req[p] # Idle /\ req[p].op = "hook" /\ req[p].todo # << >>
        /\ req'[p] # req[p] /\ gwLog' # << >>) =>
         pendingPayouts[Head(req[p].todo)].status = "PENDING"
    ]_vars

\* C33 witness: the hook has just paid a queued record: it is PROCESSED, a
\* payout record of its amount exists and the transfer went out
C33_Witness ==
  /\ req[Serial] # Idle /\ req[Serial].op = "hook"
  /\ Len(gwLog) = 1 /\ gwLog[1].kind = "transfer" /\ gwLog[1].ok
  /\ \E i \in 1..Len(pendingPayouts) :
       /\ pendingPayouts[i].status = "PROCESSED"
       /\ \E k \in PayoutsOf(payouts, pendingPayouts[i].task_id) :
            payouts[k].amount = pendingPayouts[i].amount

\* Sum of the tasker's (or else the platform's) held amount over the PENDING
\* payments among the first n rows; every payment is of the one tasker
RECURSIVE SumPending(_, _)
SumPending(n, forTasker) ==
  IF n = 0 THEN 0
  ELSE SumPending(n - 1, forTasker) +
       (IF payments[n].status # "PENDING" THEN 0
        ELSE IF forTasker THEN taskerPendingAmount(payments[n])
             ELSE companyPendingAmount(payments[n]))

\* C34: each payee's pending_balance is the sum of price minus commission
\* over that payee's PENDING payments, and the platform's pending_balance is
\* the sum of commission plus fee over all PENDING payments.
C34_PendingMatchesHeld ==
  /\ \A u \in Users :
       wallets[u].pending_balance = SumPending(Len(payments), TRUE)
  /\ company.pending_balance = SumPending(Len(payments), FALSE)

\* C35: once a gateway transfer for a task's payout has succeeded (by
\* COMPLETE, the batch retry or the admin-review retry), the task's Payment
\* is not PENDING and the payee's pending_balance holds nothing beyond the
\* payments that are still PENDING.
C35_PaidTaskNotHeld ==
  \A t \in Tasks :
    transfersOK[t] > 0 =>
      /\ \A i \in 1..Len(payments) :
           payments[i].related_task_id = t => payments[i].status # "PENDING"
      /\ \A u \in Users :
           wallets[u].pending_balance = SumPending(Len(payments), TRUE)

\* C36: SUCCESS and FAILED are terminal for a retryable Failure Record: no
\* step changes the status of a FailedPayout row that is SUCCESS or FAILED.
C36_RetryableTerminal ==
  [][\A i \in 1..Len(failedPayouts) :
       failedPayouts[i].status \in {"SUCCESS", "FAILED"} =>
         /\ i <= Len(failedPayouts')
         /\ failedPayouts'[i].status = failedPayouts[i].status
    ]_vars

\* C37: with retryPayouts passes running concurrently, each PENDING Failure
\* Record leads to at most one successful transfer: no task's record is
\* paid twice.
C37_OneTransferPerRecord ==
  \A t \in Tasks : transfersOK[t] <= 1

\* C38: a task never has an open retryable record (PENDING) and an open
\* admin-review record (ADMIN_REVIEW_REQUIRED) at the same time.
C38_OneOpenRecordPerTask ==
  \A t \in Tasks :
    ~(/\ \E i \in 1..Len(failedPayouts) :
           failedPayouts[i].task_id = t /\ failedPayouts[i].status = "PENDING"
      /\ \E i \in 1..Len(adminReviews) :
           /\ adminReviews[i].task_id = t
           /\ adminReviews[i].status = "ADMIN_REVIEW_REQUIRED")

\* C39: for every amount sent to the gateway, the whole number of cents that
\* is sent denotes exactly the amount that is decremented and stored.
C39_CentsDenoteAmount ==
  \A i \in 1..Len(gwLog) : gwLog[i].cents * UnitsPerCent = gwLog[i].amount

\* The same for the amounts that are whole cents
C39_WholeCentsExact ==
  \A i \in 1..Len(gwLog) :
    gwLog[i].amount % UnitsPerCent = 0 =>
      gwLog[i].cents * UnitsPerCent = gwLog[i].amount
====
